---------------------------- MODULE Spec2Model ----------------------------
(***************************************************************************)
(* Air Canvas (yonnytan/AirCanvas_cv): the per-frame gesture pipeline of   *)
(* main.py with the helpers of handtracker.py, canvas.py, controls.py and  *)
(* camera.py.                                                              *)
(*                                                                         *)
(* Three specifications share the module:                                  *)
(*   Spec      the main loop: one step per loop iteration up to waitKey,   *)
(*             the mouse callback, the key handling, a capture failure;    *)
(*   SpecMap   the coordinate mapping as a pure function of a camera-space *)
(*             point, the frame size and the panel size;                   *)
(*   SpecWheel sequences of draw_color_wheel calls with varying radius.    *)
(*                                                                         *)
(* Python values: a point or a colour is a tuple, None is the empty tuple  *)
(* (a non-empty Python tuple is truthy, None is falsy); a button name is a *)
(* string and the None name is "None".                                     *)
(***************************************************************************)
EXTENDS Integers, Sequences, FiniteSets, TLC

VARIABLES
    \* ---- main.py module state (Spec)
    pc,                     \* "start" | "frame" | "waitkey" | "exited" | "crashed"
    last_drawing_point,
    is_erasing,
    current_drawing_color,
    canvas_is_white,
    selected_color_name,
    red_value, green_value, blue_value,
    line_thickness,
    color_buttons,          \* name -> colour (the rectangles never change)
    drawing_canvas,
    \* ---- controls.py module state (Spec and SpecWheel)
    color_wheel_cache,      \* None, or [size, id] of the cached wheel image
    \* ---- observations of the run (what a test harness would record)
    frames,                 \* loop iterations started
    obs,                    \* the last processed frame
    prev,                   \* the frame before it
    event,                  \* the last step that changed the state
    wheel_log,              \* draw_color_wheel calls and generations
    \* ---- SpecMap
    m_in, m_out,
    \* ---- SpecOverlay
    o_in, o_out,
    \* ---- SpecControls
    c_in, c_out

mainVars == <<pc, last_drawing_point, is_erasing, current_drawing_color,
              canvas_is_white, selected_color_name, red_value, green_value,
              blue_value, line_thickness, color_buttons, drawing_canvas,
              frames, obs, prev, event>>
wheelVars == <<color_wheel_cache, wheel_log>>
mapVars == <<m_in, m_out>>
overlayVars == <<o_in, o_out>>
controlVars == <<c_in, c_out>>
vars == <<mainVars, wheelVars, mapVars, overlayVars, controlVars>>

None == <<>>
NoName == "None"

\* Python truthiness of a tuple-or-None value
Truthy(v) == v # None

\* int(a / b) of Python for integers a >= 0, b > 0: true division, truncated
IntDiv(a, b) == a \div b

Min(a, b) == IF a <= b THEN a ELSE b
Max(a, b) == IF a >= b THEN a ELSE b
Abs(a) == IF a < 0 THEN -a ELSE a

WHITE == <<255, 255, 255>>
BLACK == <<0, 0, 0>>

-----------------------------------------------------------------------------
(* Crop geometry and coordinate mapping                                     *)

\* main.py:80, 272, 313 and handtracker.py:150
crop_size_of(width, height) == Min(width, height)

\* main.py:83-84, 273-274 and handtracker.py:151-152
crop_start(dim, crop_size) == (dim - crop_size) \div 2

\* main.py:91, 277 and handtracker.py:156: int(crop_size * 3 / 4)
portrait_width_of(crop_size) == IntDiv(crop_size * 3, 4)

\* main.py:94, 278 and handtracker.py:157
portrait_start_x_of(crop_size) ==
    (crop_size - portrait_width_of(crop_size)) \div 2

\* main.py:62-101: the shape <<width, height>> of the portrait crop. The
\* slices [start, start + size) hold exactly size columns or rows.
crop_camera_to_portrait(width, height) ==
    LET crop_size == crop_size_of(width, height)
    IN  <<portrait_width_of(crop_size), crop_size>>

\* main.py:87, 98-99: the camera columns and rows that the portrait crop keeps
InSquareCrop(p, width, height) ==
    LET crop_size == crop_size_of(width, height)
        sx == crop_start(width, crop_size)
        sy == crop_start(height, crop_size)
    IN  /\ sx <= p[1] /\ p[1] < sx + crop_size
        /\ sy <= p[2] /\ p[2] < sy + crop_size

InPortraitCrop(p, width, height) ==
    LET crop_size == crop_size_of(width, height)
        sx == crop_start(width, crop_size)
        px == portrait_start_x_of(crop_size)
    IN  /\ InSquareCrop(p, width, height)
        /\ sx + px <= p[1]
        /\ p[1] < sx + px + portrait_width_of(crop_size)

\* handtracker.py:119-181
map_to_panel_coordinates(finger_point, camera_width, camera_height, cropped_w, cropped_h, panel_width, panel_height) ==
    IF finger_point = None THEN None
    ELSE
    LET crop_size == crop_size_of(camera_width, camera_height)
        crop_start_x == crop_start(camera_width, crop_size)
        crop_start_y == crop_start(camera_height, crop_size)
        portrait_width == portrait_width_of(crop_size)
        portrait_start_x == portrait_start_x_of(crop_size)
    IN  IF /\ crop_start_x <= finger_point[1]
           /\ finger_point[1] <= crop_start_x + crop_size
           /\ crop_start_y <= finger_point[2]
           /\ finger_point[2] <= crop_start_y + crop_size
        THEN LET crop_x == finger_point[1] - crop_start_x
                 crop_y == finger_point[2] - crop_start_y
             IN  IF /\ portrait_start_x <= crop_x
                    /\ crop_x <= portrait_start_x + portrait_width
                 THEN LET portrait_x == crop_x - portrait_start_x
                          portrait_y == crop_y
                      IN  <<IntDiv(portrait_x * panel_width, cropped_w),
                            IntDiv(portrait_y * panel_height, cropped_h)>>
                 ELSE None
        ELSE None

\* main.py:267-306: the inline mapping of the index fingertip to the drawing
\* area; area_w, area_h are drawing_area_width, drawing_area_height
inline_drawing_point(index_finger_point, camera_width, camera_height, cropped_w, cropped_h, area_w, area_h) ==
    IF Truthy(index_finger_point)
    THEN LET crop_size == crop_size_of(camera_width, camera_height)
             crop_start_x == crop_start(camera_width, crop_size)
             crop_start_y == crop_start(camera_height, crop_size)
             portrait_width == portrait_width_of(crop_size)
             portrait_start_x == portrait_start_x_of(crop_size)
         IN  IF /\ crop_start_x <= index_finger_point[1]
                /\ index_finger_point[1] <= crop_start_x + crop_size
                /\ crop_start_y <= index_finger_point[2]
                /\ index_finger_point[2] <= crop_start_y + crop_size
             THEN LET crop_x == index_finger_point[1] - crop_start_x
                      crop_y == index_finger_point[2] - crop_start_y
                  IN  IF /\ portrait_start_x <= crop_x
                         /\ crop_x <= portrait_start_x + portrait_width
                      THEN LET portrait_x == crop_x - portrait_start_x
                               portrait_y == crop_y
                           IN  <<IntDiv(portrait_x * area_w, cropped_w),
                                 IntDiv(portrait_y * area_h, cropped_h)>>
                      ELSE None
             ELSE None
    ELSE None

\* The mutant of inline_thumb_point: the far edge of the square excluded
inline_thumb_point_strict(thumb_point, camera_width, camera_height) ==
    IF Truthy(thumb_point)
    THEN LET crop_size == crop_size_of(camera_width, camera_height)
             crop_start_x == crop_start(camera_width, crop_size)
             crop_start_y == crop_start(camera_height, crop_size)
             portrait_width == portrait_width_of(crop_size)
             portrait_start_x == portrait_start_x_of(crop_size)
         IN  IF /\ crop_start_x <= thumb_point[1]
                /\ thumb_point[1] < crop_start_x + crop_size
                /\ crop_start_y <= thumb_point[2]
                /\ thumb_point[2] < crop_start_y + crop_size
                /\ portrait_start_x <= thumb_point[1] - crop_start_x
                /\ thumb_point[1] - crop_start_x <= portrait_start_x + portrait_width
             THEN <<thumb_point[1] - crop_start_x - portrait_start_x,
                    thumb_point[2] - crop_start_y>>
             ELSE None
    ELSE None

\* main.py:310-328: the inline acceptance test of the thumb; the accepted
\* thumb is the portrait-relative point the blue circle is drawn at
inline_thumb_point(thumb_point, camera_width, camera_height) ==
    IF Truthy(thumb_point)
    THEN LET crop_size == crop_size_of(camera_width, camera_height)
             crop_start_x == crop_start(camera_width, crop_size)
             crop_start_y == crop_start(camera_height, crop_size)
             portrait_width == portrait_width_of(crop_size)
             portrait_start_x == portrait_start_x_of(crop_size)
         IN  IF /\ crop_start_x <= thumb_point[1]
                /\ thumb_point[1] <= crop_start_x + crop_size
                /\ crop_start_y <= thumb_point[2]
                /\ thumb_point[2] <= crop_start_y + crop_size
             THEN LET crop_x == thumb_point[1] - crop_start_x
                      crop_y == thumb_point[2] - crop_start_y
                  IN  IF /\ portrait_start_x <= crop_x
                         /\ crop_x <= portrait_start_x + portrait_width
                      THEN <<crop_x - portrait_start_x, crop_y>>
                      ELSE None
             ELSE None
    ELSE None

\* The mutant of inverse_scale: the forward factor applied again
inverse_scale_forward(drawing_point, cropped_w, cropped_h, area_w, area_h) ==
    <<IntDiv(drawing_point[1] * area_w, cropped_w),
      IntDiv(drawing_point[2] * area_h, cropped_h)>>

\* main.py:331-335: drawing coordinates back to the portrait crop
inverse_scale(drawing_point, cropped_w, cropped_h, area_w, area_h) ==
    <<IntDiv(drawing_point[1] * cropped_w, area_w),
      IntDiv(drawing_point[2] * cropped_h, area_h)>>

-----------------------------------------------------------------------------
(* Program constants of main.py                                             *)

target_window_width == 1600
target_window_height == 1000
left_flex == 1
right_flex == 1

\* main.py:129-150 with the flex values of main.py:155
left_panel_width == IntDiv(left_flex * target_window_width, left_flex + right_flex)
left_panel_height == target_window_height
right_panel_width == target_window_width - left_panel_width
right_panel_height == target_window_height

\* main.py:161-162
drawing_area_height == left_panel_height
drawing_area_width == left_panel_width

initial_line_thickness == 5
color_wheel_center_y == 150
color_wheel_radius == 80

\* main.py:178-185: the buttons in the dictionary's insertion order
ButtonOrder == <<"red", "green", "blue", "yellow", "eraser", "custom">>
ButtonNames == {ButtonOrder[i] : i \in 1..Len(ButtonOrder)}

button_rect ==
    [n \in ButtonNames |->
        CASE n = "red"    -> <<10, 10, 80, 80>>
          [] n = "green"  -> <<90, 10, 160, 80>>
          [] n = "blue"   -> <<170, 10, 240, 80>>
          [] n = "yellow" -> <<250, 10, 320, 80>>
          [] n = "eraser" -> <<330, 10, 400, 80>>
          [] n = "custom" -> <<410, 10, 480, 80>>]

\* the BGR colours the dictionary is built with
initial_color_buttons ==
    [n \in ButtonNames |->
        CASE n = "red"    -> <<0, 0, 255>>
          [] n = "green"  -> <<0, 255, 0>>
          [] n = "blue"   -> <<255, 0, 0>>
          [] n = "yellow" -> <<0, 255, 255>>
          [] n = "eraser" -> <<255, 255, 255>>
          [] n = "custom" -> <<0, 0, 0>>]

\* main.py:230-231: the toggle button of the left panel
toggle_button_x == 10
toggle_button_y == 10
toggle_button_width == 120
toggle_button_height == 40

-----------------------------------------------------------------------------
(* canvas.py: the drawing surface. A surface is its shape, the colour it    *)
(* was filled with and the shapes painted on it since, in order, so every   *)
(* pixel of the height x width array has a value: the colour of the last    *)
(* shape that covers it whole, blended with the colours of the antialiased  *)
(* rims painted over it since; the fill where no shape reaches it.          *)

\* The mutant of create_canvas: the surface always created white
create_canvas_white(height, width, color) ==
    [height |-> height, width |-> width, fill |-> WHITE, paint |-> <<>>]

\* canvas.py:24-42
create_canvas(height, width, color) ==
    [height |-> height, width |-> width, fill |-> color, paint |-> <<>>]

\* canvas.py:44-58 and main.py:559: canvas[:] = color
clear_canvas(canvas, color) ==
    [canvas EXCEPT !.fill = color, !.paint = <<>>]

InCanvas(canvas, p) ==
    /\ 0 <= p[1] /\ p[1] < canvas.width
    /\ 0 <= p[2] /\ p[2] < canvas.height

\* the pixels of the array
CanvasPixels(canvas) == (0..(canvas.width - 1)) \X (0..(canvas.height - 1))

\* cv2.line with cv2.LINE_AA as called at canvas.py:76: the stroke from
\* start_point to end_point, thickness wide with round ends. With d the
\* distance of the pixel from the segment (beside the segment
\* d^2 = cross^2 / length^2), the stroke covers the part
\* thickness / 2 + 1/2 - d of the pixel: the pixel whole ("full") where
\* 2 d <= thickness - 1, none of it ("none") where 2 d >= thickness + 1,
\* and a part of it ("blend") on the rim between the two, where the array
\* keeps a blend of the stroke's colour and of the value it had.
line_coverage(start_point, end_point, thickness, p) ==
    LET dx == end_point[1] - start_point[1]
        dy == end_point[2] - start_point[2]
        wx == p[1] - start_point[1]
        wy == p[2] - start_point[2]
        ex == p[1] - end_point[1]
        ey == p[2] - end_point[2]
        length2 == dx * dx + dy * dy
        dot == wx * dx + wy * dy
        cross == wx * dy - wy * dx
        beside == length2 # 0 /\ 0 < dot /\ dot < length2
        den == IF beside THEN length2 ELSE 1
        inner == ((thickness - 1) * (thickness - 1) * den) \div 4
        outer == ((thickness + 1) * (thickness + 1) * den - 1) \div 4
        num == IF beside THEN cross * cross
               ELSE IF length2 = 0 \/ dot <= 0 THEN wx * wx + wy * wy
                    ELSE ex * ex + ey * ey
    IN  IF beside /\ Abs(cross) > 46340 THEN "none"
        ELSE IF num <= inner THEN "full"
             ELSE IF num <= outer THEN "blend"
                  ELSE "none"

\* the stroke writes to the pixel
line_covers(start_point, end_point, thickness, p) ==
    line_coverage(start_point, end_point, thickness, p) # "none"

\* cv2.rectangle as called at main.py:353-354 and 362-363 (line type
\* LINE_8, no blending): with a negative thickness the rectangle pt1..pt2
\* filled, both corners included, else its outline, thickness wide
rectangle_covers(pt1, pt2, thickness, p) ==
    IF thickness < 0
    THEN /\ pt1[1] <= p[1] /\ p[1] <= pt2[1]
         /\ pt1[2] <= p[2] /\ p[2] <= pt2[2]
    ELSE LET h == thickness \div 2
         IN  /\ pt1[1] - h <= p[1] /\ p[1] <= pt2[1] + h
             /\ pt1[2] - h <= p[2] /\ p[2] <= pt2[2] + h
             /\ ~(/\ pt1[1] + h < p[1] /\ p[1] < pt2[1] - h
                  /\ pt1[2] + h < p[2] /\ p[2] < pt2[2] - h)

\* FONT_HERSHEY_SIMPLEX: at scale 1 a glyph is at most 24 pixels wide and
\* stands 22 pixels above the baseline and 10 below it
HersheyGlyphWidth == 24
HersheyGlyphAscent == 22
HersheyGlyphDescent == 10

\* the characters of the two labels of main.py:357
TextLength(text) == IF text \in {"White", "Black"} THEN 5 ELSE 0

\* cv2.putText as called at main.py:358-359: the glyphs of the text are
\* stroked, thickness wide, from the bottom-left corner pt1 of the text, at
\* the scale fontScale10 / 10; they lie in this cell
text_cell(text, pt1, fontScale10, thickness, p) ==
    LET h == (thickness + 1) \div 2
    IN  /\ pt1[1] - h <= p[1]
        /\ p[1] <= pt1[1] + (TextLength(text) * HersheyGlyphWidth * fontScale10 + 9) \div 10 + h
        /\ pt1[2] - (HersheyGlyphAscent * fontScale10 + 9) \div 10 - h <= p[2]
        /\ p[2] <= pt1[2] + (HersheyGlyphDescent * fontScale10 + 9) \div 10 + h

\* what the painted shape does to the pixel: "none", "full" (the pixel
\* takes the colour of the shape), "blend" (the rim of a LINE_AA stroke) or
\* "glyph" (the pixel takes the colour where a glyph of the text has a
\* stroke and keeps its value elsewhere in the cell of the text)
Coverage(shape, p) ==
    IF shape.shape = "line"
    THEN line_coverage(shape.pt1, shape.pt2, shape.thickness, p)
    ELSE IF shape.shape = "rectangle"
         THEN (IF rectangle_covers(shape.pt1, shape.pt2, shape.thickness, p)
               THEN "full" ELSE "none")
         ELSE (IF text_cell(shape.text, shape.pt1, shape.fontScale10, shape.thickness, p)
               THEN "glyph" ELSE "none")

\* the painted shape writes to the pixel
Covers(shape, p) == Coverage(shape, p) # "none"

\* the pixels of the surface within the bounding box of the painted shape
ShapeBox(canvas, shape) ==
    LET h == (Abs(shape.thickness) + 2) \div 2
    IN  (Max(0, Min(shape.pt1[1], shape.pt2[1]) - h)
            .. Min(canvas.width - 1, Max(shape.pt1[1], shape.pt2[1]) + h))
        \X (Max(0, Min(shape.pt1[2], shape.pt2[2]) - h)
            .. Min(canvas.height - 1, Max(shape.pt1[2], shape.pt2[2]) + h))

\* A pixel value: the colour base, and the layers blended over it since in
\* order, each the colour of a shape that covers the pixel in part. The
\* weights of the layers are those of the shapes at the pixel, strictly
\* between 0 and 1, so two values are equal where their layers are.
Solid(color) == [base |-> color, layers |-> <<>>]

\* the value of a pixel after the shape is painted over it: one colour
\* blended with itself is that colour
paint_over(value, shape, p) ==
    LET coverage == Coverage(shape, p)
    IN  IF coverage = "none" THEN value
        ELSE IF coverage = "full" \/ value = Solid(shape.color) THEN Solid(shape.color)
             ELSE [value EXCEPT !.layers = Append(@, [coverage |-> coverage, shape |-> shape])]

RECURSIVE painted(_, _, _, _)
\* the value of pixel p after the shapes paint[i], paint[i+1], ... in order
painted(value, paint, i, p) ==
    IF i > Len(paint) THEN value
    ELSE painted(paint_over(value, paint[i], p), paint, i + 1, p)

\* the value of the array at pixel p
PixelAt(canvas, p) == painted(Solid(canvas.fill), canvas.paint, 1, p)

\* every pixel of the surface has colour c
AllPixels(canvas, c) ==
    IF canvas.paint = <<>> THEN canvas.fill = c
    ELSE \A p \in CanvasPixels(canvas) : PixelAt(canvas, p) = Solid(c)

\* canvas.py:60-76
draw_line(canvas, start_point, end_point, color, thickness) ==
    [canvas EXCEPT !.paint = Append(@, [shape |-> "line", pt1 |-> start_point,
                                        pt2 |-> end_point, color |-> color,
                                        thickness |-> thickness,
                                        text |-> "", fontScale10 |-> 0])]

\* cv2.rectangle (main.py:353-354, 362-363)
rectangle(canvas, pt1, pt2, color, thickness) ==
    [canvas EXCEPT !.paint = Append(@, [shape |-> "rectangle", pt1 |-> pt1, pt2 |-> pt2,
                                        color |-> color, thickness |-> thickness,
                                        text |-> "", fontScale10 |-> 0])]

\* cv2.putText with FONT_HERSHEY_SIMPLEX (main.py:358-359)
putText(canvas, text, org, fontScale10, color, thickness) ==
    [canvas EXCEPT !.paint = Append(@, [shape |-> "putText", pt1 |-> org, pt2 |-> org,
                                        color |-> color, thickness |-> thickness,
                                        text |-> text, fontScale10 |-> fontScale10])]

\* main.py:357
button_text(white) == IF white THEN "White" ELSE "Black"

\* The mutant of left_panel_render: the button drawn on the canvas itself
left_panel_render_nocopy(canvas, white) ==
    LET button_width == 120
        button_height == 40
        button_x == 10
        button_y == 10
        corner == <<button_x + button_width, button_y + button_height>>
        filled == rectangle(canvas, <<button_x, button_y>>, corner, <<100, 100, 100>>, -1)
        labelled == putText(filled, button_text(white), <<button_x + 10, button_y + 25>>,
                            6, WHITE, 2)
        left_panel == rectangle(labelled, <<button_x, button_y>>, corner, BLACK, 2)
    IN  [left_panel |-> left_panel, drawing_canvas |-> left_panel]

\* main.py:342-363: the left panel, a copy of the canvas with the toggle
\* button drawn on it (its rectangle, its label, its border), and the
\* canvas after the rendering
left_panel_render(canvas, white) ==
    LET button_width == 120
        button_height == 40
        button_x == 10
        button_y == 10
        corner == <<button_x + button_width, button_y + button_height>>
        filled == rectangle(canvas, <<button_x, button_y>>, corner, <<100, 100, 100>>, -1)
        labelled == putText(filled, button_text(white), <<button_x + 10, button_y + 25>>,
                            6, WHITE, 2)
        left_panel == rectangle(labelled, <<button_x, button_y>>, corner, BLACK, 2)
    IN  [left_panel |-> left_panel, drawing_canvas |-> canvas]

\* canvas.py:99-129 and main.py:383-384: the canvas array after
\* overlay_canvas has read it; every statement of the function writes to an
\* array of its own
canvas_after_overlay(canvas, background_color) == canvas

-----------------------------------------------------------------------------
(* canvas.py: the compositor. An image is the sequence of its pixels in     *)
(* row order, a pixel a <<blue, green, red>> tuple of uint8 values.         *)

\* cv2.resize at canvas.py:99: an image that has the requested shape comes
\* back pixel for pixel; a one-coloured image comes back one-coloured in
\* the requested shape (the interpolation weights sum to one). These are
\* the images the compositor is run on here.
resize(canvas, size) ==
    IF Len(canvas) = size THEN canvas ELSE [i \in 1..size |-> canvas[1]]

\* cv2.cvtColor(COLOR_BGR2GRAY) at canvas.py:106 on one uint8 pixel: the
\* weights 0.114, 0.587, 0.299 in 14-bit fixed point, rounded
bgr2gray(p) == (p[1] * 1868 + p[2] * 9617 + p[3] * 4899 + 8192) \div 16384

\* The mutant of drawn_mask: the two thresholds taken the other way round
drawn_mask_swapped(gray, background_color) ==
    IF background_color = WHITE
    THEN (IF gray > 5 THEN 255 ELSE 0)
    ELSE (IF gray > 250 THEN 0 ELSE 255)

\* canvas.py:109-116: cv2.threshold with THRESH_BINARY_INV at 250 for the
\* white background, THRESH_BINARY at 5 otherwise; the mask value of a pixel
drawn_mask(gray, background_color) ==
    IF background_color = WHITE
    THEN (IF gray > 250 THEN 0 ELSE 255)
    ELSE (IF gray > 5 THEN 255 ELSE 0)

\* cv2.bitwise_and(src, src, mask=m) on one pixel (canvas.py:123, 125)
bitwise_and_masked(p, mask) == IF mask # 0 THEN p ELSE BLACK

\* cv2.add on one uint8 pixel: the saturated sum (canvas.py:128)
add_saturated(p, q) == [k \in 1..3 |-> Min(255, p[k] + q[k])]

\* The mutant of overlay_pixel: the stroke added onto the live pixel
overlay_pixel_blend(frame_pixel, canvas_pixel, background_color) ==
    LET mask == drawn_mask(bgr2gray(canvas_pixel), background_color)
    IN  add_saturated(frame_pixel, bitwise_and_masked(canvas_pixel, mask))

\* canvas.py:106-129 on one pixel of the frame and of the resized surface
overlay_pixel(frame_pixel, canvas_pixel, background_color) ==
    LET mask == drawn_mask(bgr2gray(canvas_pixel), background_color)
        background_mask == 255 - mask
        background == bitwise_and_masked(frame_pixel, background_mask)
        foreground == bitwise_and_masked(canvas_pixel, mask)
    IN  add_saturated(background, foreground)

\* canvas.py:78-129: the image returned
overlay_canvas(camera_frame, canvas, background_color) ==
    LET canvas_resized == resize(canvas, Len(camera_frame))
    IN  [i \in 1..Len(camera_frame) |->
            overlay_pixel(camera_frame[i], canvas_resized[i], background_color)]

-----------------------------------------------------------------------------
(* handtracker.py: the pinch test                                           *)

\* The mutant of is_pinch: a distance equal to the threshold taken as a pinch
is_pinch_inclusive(index_finger_point, thumb_point, frame_width) ==
    IF index_finger_point = None \/ thumb_point = None THEN FALSE
    ELSE LET x_distance == index_finger_point[1] - thumb_point[1]
             y_distance == index_finger_point[2] - thumb_point[2]
         IN  x_distance * x_distance + y_distance * y_distance
                <= (9 * frame_width * frame_width) \div 40000

\* handtracker.py:85-117 with the default threshold 0.015: the distance over
\* the frame width is below 15/1000 iff d^2 * 40000 < 9 * width^2, that is
\* d^2 <= (9 * width^2 - 1) div 40000
is_pinch(index_finger_point, thumb_point, frame_width) ==
    IF index_finger_point = None \/ thumb_point = None THEN FALSE
    ELSE LET x_distance == index_finger_point[1] - thumb_point[1]
             y_distance == index_finger_point[2] - thumb_point[2]
         IN  x_distance * x_distance + y_distance * y_distance
                <= (9 * frame_width * frame_width - 1) \div 40000

\* main.py:261
main_is_pinching(index_finger_point, thumb_point, frame_width) ==
    IF Truthy(index_finger_point) /\ Truthy(thumb_point)
    THEN is_pinch(index_finger_point, thumb_point, frame_width)
    ELSE FALSE

-----------------------------------------------------------------------------
(* controls.py: buttons, colour wheel, slider                               *)

InRect(p, rect) ==
    /\ rect[1] <= p[1] /\ p[1] <= rect[3]
    /\ rect[2] <= p[2] /\ p[2] <= rect[4]

\* main.py:178-185, 390-394: the color_buttons dictionary as the sequence of
\* its items <<name, coordinates, colour>> in insertion order, for the
\* current colours
color_buttons_items(buttons) ==
    [i \in 1..Len(ButtonOrder) |->
        <<ButtonOrder[i], button_rect[ButtonOrder[i]], buttons[ButtonOrder[i]]>>]

\* controls.py:98-102: the items, in iteration order, whose rectangle holds
\* the point
HitButtons(p, color_buttons_dict) ==
    SelectSeq(color_buttons_dict, LAMBDA item : InRect(p, item[2]))

\* The mutant of check_color_selection: the loop not left at the first hit
check_color_selection_last(finger_point, color_buttons_dict) ==
    IF finger_point = None THEN <<NoName, FALSE, None>>
    ELSE LET hit == HitButtons(finger_point, color_buttons_dict)
         IN  IF hit = <<>> THEN <<NoName, FALSE, None>>
             ELSE LET item == hit[Len(hit)]
                  IN  <<item[1], item[1] = "eraser", item[3]>>

\* controls.py:78-108: <<button_name, is_eraser, button_color>>
check_color_selection(finger_point, color_buttons_dict) ==
    IF finger_point = None THEN <<NoName, FALSE, None>>
    ELSE LET hit == HitButtons(finger_point, color_buttons_dict)
         IN  IF hit = <<>> THEN <<NoName, FALSE, None>>
             ELSE LET item == Head(hit)
                  IN  <<item[1], item[1] = "eraser", item[3]>>

\* The mutant of draw_color_wheel_cache: the wheel generated on every call
draw_color_wheel_cache_always(cache, radius, generation) ==
    [present |-> TRUE, size |-> radius * 2, id |-> generation]

\* controls.py:127-172: the cache after a call with this radius; a generated
\* image is a new object, named by the number of the generation
draw_color_wheel_cache(cache, radius, generation) ==
    IF (~cache.present) \/ cache.size # radius * 2
    THEN [present |-> TRUE, size |-> radius * 2, id |-> generation]
    ELSE cache

\* controls.py:219, 226-231: the geometry draw_color_wheel returns
draw_color_wheel(center_x, center_y, radius) ==
    [center_x |-> center_x, center_y |-> center_y, radius |-> radius,
     inner_radius |-> radius \div 3]

\* tan(2j degrees) * 10^6 for j = 0..44, rounded
TanScale == 1000000
TanTable == <<0, 34921, 69927, 105104, 140541, 176327, 212557, 249328, 286745,
              324920, 363970, 404026, 445229, 487733, 531709, 577350, 624869,
              674509, 726543, 781286, 839100, 900404, 965689, 1035530, 1110613,
              1191754, 1279942, 1376382, 1482561, 1600335, 1732051, 1880726,
              2050304, 2246037, 2475087, 2747477, 3077684, 3487414, 4010781,
              4704630, 5671282, 7115370, 9514364, 14300666, 28636253>>

\* tan(2j degrees) <= b / a, for a > 0, b >= 0 (a * T <= b * S without the
\* large product)
TanAtMost(j, a, b) ==
    \/ TanTable[j + 1] = 0
    \/ a <= (b * TanScale) \div TanTable[j + 1]

\* floor(atan(b / a) in degrees / 2) for a > 0, b >= 0: a value of 0..44
QuadrantHue(a, b) ==
    CHOOSE j \in 0..44 : TanAtMost(j, a, b) /\ (j < 44 => ~TanAtMost(j + 1, a, b))

\* The mutant of wheel_hue: the arguments of atan2 exchanged
wheel_hue_swapped(dx, dy) ==
    CASE dy > 0 /\ dx >= 0 -> QuadrantHue(dy, dx)
      [] dy <= 0 /\ dx > 0 -> 45 + QuadrantHue(dx, -dy)
      [] dy < 0 /\ dx <= 0 -> 90 + QuadrantHue(-dy, -dx)
      [] dy >= 0 /\ dx < 0 -> 135 + QuadrantHue(-dx, dy)
      [] OTHER -> 0

\* controls.py:264-266, 275, 280: the uint8 hue, floor(angle / 2) with the
\* angle of atan2(dy, dx) in [0, 360)
wheel_hue(dx, dy) ==
    CASE dx > 0 /\ dy >= 0 -> QuadrantHue(dx, dy)
      [] dx <= 0 /\ dy > 0 -> 45 + QuadrantHue(dy, -dx)
      [] dx < 0 /\ dy <= 0 -> 90 + QuadrantHue(-dx, -dy)
      [] dx >= 0 /\ dy < 0 -> 135 + QuadrantHue(-dy, dx)
      [] OTHER -> 0

\* controls.py:152-153, 158: the saturation draw_color_wheel gives the pixel
\* at squared distance d2 <= radius^2 from the centre of the wheel image,
\* int(clamp(distance / radius, 0.1, 1.0) * 255)
wheel_generation_saturation_cv(d2, radius) ==
    LET k == CHOOSE c \in 0..255 :
                /\ (c * radius) * (c * radius) <= 255 * 255 * d2
                /\ (c < 255 => ((c + 1) * radius) * ((c + 1) * radius) > 255 * 255 * d2)
    IN  Max(25, k)

\* The mutant of wheel_saturation_cv: the saturation of the generation,
\* distance / radius
wheel_saturation_cv_generation(d2, radius, inner_radius) ==
    LET k == CHOOSE c \in 0..255 :
                /\ (c * radius) * (c * radius) <= 255 * 255 * d2
                /\ (c < 255 => ((c + 1) * radius) * ((c + 1) * radius) > 255 * 255 * d2)
    IN  Max(25, k)

\* controls.py:270-271, 276: int(clamp((distance - inner) / (radius - inner),
\* 0.1, 1.0) * 255) for a squared distance d2 within the annulus
wheel_saturation_cv(d2, radius, inner_radius) ==
    LET n == radius - inner_radius
        k == CHOOSE c \in 0..255 :
                /\ (c * n + 255 * inner_radius) * (c * n + 255 * inner_radius) <= 255 * 255 * d2
                /\ (c < 255 =>
                      ((c + 1) * n + 255 * inner_radius) * ((c + 1) * n + 255 * inner_radius) > 255 * 255 * d2)
    IN  Max(25, k)

\* cv2.cvtColor computes in single precision. A float32 value m * 2^e, with
\* 0 <= m < 2^24, is the pair <<m, e>>; every operation rounds its exact
\* result to 24 significant bits, ties to the even mantissa. An operation
\* takes the value of each operand once ({... : x \in {a}}).

\* the number of bits of n, 0 <= n < 2^30
BitLength(n) == CHOOSE k \in 0..30 : n < 2^k /\ (k = 0 \/ n >= 2^(k - 1))

\* a mantissa of 2^24 is 2^23 one exponent higher
f32_normal(m, e) == IF m = 2^24 THEN <<2^23, e + 1>> ELSE <<m, e>>

\* the 48-bit product of two mantissas from their 12-bit halves, as
\* <<hi, lo, e>> for (hi * 2^24 + lo) * 2^e
f32_product(x, y) ==
    LET a1 == x[1] \div 4096
        a0 == x[1] % 4096
        b1 == y[1] \div 4096
        b0 == y[1] % 4096
        mid == a1 * b0 + a0 * b1
        low == (mid % 4096) * 4096 + a0 * b0
    IN  <<a1 * b1 + mid \div 4096 + low \div 2^24, low % 2^24, x[2] + y[2]>>

\* (hi * 2^24 + lo) * 2^e with hi of k bits, rounded to its 24 leading bits
f32_round_bits(hi, lo, e, k) ==
    LET q == hi * 2^(24 - k) + lo \div 2^k
        r == lo % 2^k
        up == k > 0 /\ (r > 2^(k - 1) \/ (r = 2^(k - 1) /\ q % 2 = 1))
    IN  f32_normal(IF up THEN q + 1 ELSE q, e + k)

\* a product <<hi, lo, e>> rounded to float32
f32_round(p) ==
    CHOOSE c \in {f32_round_bits(p[1], p[2], p[3], k) : k \in {BitLength(p[1])}} : TRUE

\* a * b in float32
f32_mul(a, b) ==
    CHOOSE c \in {f32_round(p) : p \in {f32_product(x, y) : x \in {a}, y \in {b}}} : TRUE

\* 1.f - m * 2^e in float32, for 0 <= m * 2^e <= 1: exact where the operand
\* is a multiple of 2^-24, else the operand is below 1/2 and the difference
\* is rounded to a multiple of 2^-24
f32_one_minus_bits(m, e) ==
    LET j == (0 - e) - 24
        q == m \div 2^j
        r == m % 2^j
        half == 2^(j - 1)
    IN  IF m = 0 \/ j >= 26 THEN <<1, 0>>
        ELSE IF j <= 0 THEN <<2^(0 - e) - m, e>>
             ELSE IF r < half \/ (r = half /\ q % 2 = 0)
                  THEN f32_normal(2^24 - q, -24)
                  ELSE <<2^24 - q - 1, -24>>

\* 1.f - a in float32, for 0 <= a <= 1
f32_one_minus(a) == CHOOSE c \in {f32_one_minus_bits(x[1], x[2]) : x \in {a}} : TRUE

\* cvFloor(m * 2^e), for 0 <= m * 2^e < 2^24
f32_floor_bits(m, e) ==
    IF e >= 0 THEN m * 2^e
    ELSE IF 0 - e > 30 THEN 0 ELSE m \div 2^(0 - e)

\* cvFloor(a)
f32_floor(a) == CHOOSE c \in {f32_floor_bits(x[1], x[2]) : x \in {a}} : TRUE

\* m * 2^e - cvFloor(m * 2^e), which is exact
f32_frac_bits(m, e) ==
    IF e >= 0 THEN <<0, 0>>
    ELSE IF 0 - e > 30 THEN <<m, e>> ELSE <<m % 2^(0 - e), e>>

\* a - cvFloor(a)
f32_frac(a) == CHOOSE c \in {f32_frac_bits(x[1], x[2]) : x \in {a}} : TRUE

\* the nearest integer to m * 2^e, ties to even
cvRound_bits(m, e) ==
    IF e >= 0 THEN m * 2^e
    ELSE IF 0 - e > 30 THEN 0
         ELSE LET j == 0 - e
                  q == m \div 2^j
                  r == m % 2^j
              IN  IF r > 2^(j - 1) \/ (r = 2^(j - 1) /\ q % 2 = 1) THEN q + 1 ELSE q

\* cvRound(a)
cvRound(a) == CHOOSE c \in {cvRound_bits(x[1], x[2]) : x \in {a}} : TRUE

\* saturate_cast<uchar>(a * 255.f)
f32_to_uint8(a) ==
    CHOOSE c \in {Min(255, Max(0, n)) : n \in {cvRound(f32_mul(a, <<255, 0>>))}} : TRUE

\* the float32 values of 1.0f / 255.0f and of 6.f / 180
f32_inv255 == <<8421505, -31>>
f32_hscale == <<8947849, -28>>

\* cv2.cvtColor(COLOR_HSV2BGR) on one uint8 pixel (controls.py:280-281), as
\* OpenCV converts an 8-bit pixel: s and v scaled by 1/255, h by 6/180, the
\* sector cvFloor(h) and the fraction of h left, the four values v,
\* v (1 - s), v (1 - s h), v (1 - s (1 - h)) placed by sector, each times
\* 255 and rounded
hsv_to_bgr(hue, sat, value) ==
    LET s == f32_mul(<<sat, 0>>, f32_inv255)
        v == f32_mul(<<value, 0>>, f32_inv255)
        scaled == f32_mul(<<hue, 0>>, f32_hscale)
        h == f32_frac(scaled)
        t0 == f32_to_uint8(v)
        t1 == f32_to_uint8(f32_mul(v, f32_one_minus(s)))
        t2 == f32_to_uint8(f32_mul(v, f32_one_minus(f32_mul(s, h))))
        t3 == f32_to_uint8(f32_mul(v, f32_one_minus(f32_mul(s, f32_one_minus(h)))))
    IN  IF sat = 0 THEN <<t0, t0, t0>>
        ELSE CHOOSE bgr \in {CASE sector = 0 -> <<t1, t3, t0>>
                               [] sector = 1 -> <<t1, t0, t2>>
                               [] sector = 2 -> <<t3, t0, t1>>
                               [] sector = 3 -> <<t0, t2, t1>>
                               [] sector = 4 -> <<t0, t1, t3>>
                               [] OTHER      -> <<t2, t1, t0>> :
                             sector \in {f32_floor(scaled) % 6}} : TRUE

\* controls.py:257-280: the uint8 pixel [hue, saturation_cv, value] that is
\* converted, or None for a point outside the annulus
wheel_hsv(finger_point, color_wheel_coords) ==
    IF finger_point = None THEN None
    ELSE LET radius == color_wheel_coords.radius
             inner_radius == color_wheel_coords.inner_radius
             dx == finger_point[1] - color_wheel_coords.center_x
             dy == finger_point[2] - color_wheel_coords.center_y
             d2 == dx * dx + dy * dy
         IN  IF d2 <= radius * radius /\ d2 >= inner_radius * inner_radius
             THEN <<wheel_hue(dx, dy), wheel_saturation_cv(d2, radius, inner_radius), 255>>
             ELSE None

\* controls.py:132-161: the uint8 pixel [hue, saturation_cv, value] converted
\* for the wheel image's pixel under the point. The image is 2 radius x 2 radius, its pixel (x, y) is at the offset
\* (x - radius, y - radius) from the centre, so it has pixels for the offsets
\* -radius .. radius - 1 only, and a colour for those within the circle:
\* None where the image has no pixel or no colour
generated_hsv_at(finger_point, color_wheel_coords) ==
    IF finger_point = None THEN None
    ELSE LET radius == color_wheel_coords.radius
             dx == finger_point[1] - color_wheel_coords.center_x
             dy == finger_point[2] - color_wheel_coords.center_y
             x == dx + radius
             y == dy + radius
             d2 == dx * dx + dy * dy
         IN  IF /\ x \in 0..(radius * 2 - 1)
                /\ y \in 0..(radius * 2 - 1)
                /\ d2 <= radius * radius
             THEN <<wheel_hue(dx, dy), wheel_generation_saturation_cv(d2, radius), 255>>
             ELSE None

\* The mutant of check_color_wheel_interaction: the inner radius not tested
check_color_wheel_interaction_disc(finger_point, color_wheel_coords) ==
    IF finger_point = None THEN None
    ELSE LET dx == finger_point[1] - color_wheel_coords.center_x
             dy == finger_point[2] - color_wheel_coords.center_y
         IN  IF dx * dx + dy * dy <= color_wheel_coords.radius * color_wheel_coords.radius
             THEN <<255, 255, 255>>
             ELSE None

\* controls.py:233-286: <<red, green, blue>> or None
check_color_wheel_interaction(finger_point, color_wheel_coords) ==
    IF finger_point = None THEN None
    ELSE LET radius == color_wheel_coords.radius
             inner_radius == color_wheel_coords.inner_radius
             dx == finger_point[1] - color_wheel_coords.center_x
             dy == finger_point[2] - color_wheel_coords.center_y
             d2 == dx * dx + dy * dy
             hsv_color == wheel_hsv(finger_point, color_wheel_coords)
         IN  IF d2 <= radius * radius /\ d2 >= inner_radius * inner_radius
             THEN LET bgr_color == hsv_to_bgr(hsv_color[1], hsv_color[2], hsv_color[3])
                  IN  <<bgr_color[3], bgr_color[2], bgr_color[1]>>
             ELSE None

\* main.py:454-457: the RGB values after the wheel test of a frame
wheel_rgb_update(wheel_color, rgb) == IF Truthy(wheel_color) THEN wheel_color ELSE rgb

\* controls.py:306-313, 339-341: the rectangle of the thickness slider
draw_sliders(color_wheel_center_x, center_y, radius) ==
    LET slider_width == radius * 2
        slider_height == 20
        margin == 20
        slider_x == color_wheel_center_x - radius
        slider_y == center_y + radius + margin
    IN  <<slider_x, slider_y, slider_x + slider_width, slider_y + slider_height>>

\* The mutants of check_slider_interaction: a missing point read as the left
\* end of the slider; the thickness set without the rectangle test; the
\* thickness counted from 0
check_slider_interaction_lost(finger_point, thickness_rect, current_values) ==
    IF finger_point = None
    THEN <<current_values[1], current_values[2], current_values[3], 1>>
    ELSE IF InRect(finger_point, thickness_rect)
         THEN <<current_values[1], current_values[2], current_values[3],
                1 + IntDiv(19 * (finger_point[1] - thickness_rect[1]),
                           thickness_rect[3] - thickness_rect[1])>>
         ELSE current_values

check_slider_interaction_unbounded(finger_point, thickness_rect, current_values) ==
    IF finger_point = None THEN current_values
    ELSE <<current_values[1], current_values[2], current_values[3],
           1 + ((19 * (finger_point[1] - thickness_rect[1]))
                    \div (thickness_rect[3] - thickness_rect[1]))>>

check_slider_interaction_from0(finger_point, thickness_rect, current_values) ==
    IF finger_point = None THEN current_values
    ELSE IF InRect(finger_point, thickness_rect)
         THEN <<current_values[1], current_values[2], current_values[3],
                IntDiv(19 * (finger_point[1] - thickness_rect[1]),
                       thickness_rect[3] - thickness_rect[1])>>
         ELSE current_values

\* controls.py:343-383: <<red, green, blue, thickness>>;
\* int(1 + 19 * ((x - x1) / (x2 - x1))) is 1 + floor(19 (x - x1) / (x2 - x1))
check_slider_interaction(finger_point, thickness_rect, current_values) ==
    IF finger_point = None THEN current_values
    ELSE IF InRect(finger_point, thickness_rect)
         THEN <<current_values[1], current_values[2], current_values[3],
                1 + IntDiv(19 * (finger_point[1] - thickness_rect[1]),
                           thickness_rect[3] - thickness_rect[1])>>
         ELSE current_values

-----------------------------------------------------------------------------
(* main.py: the stages of one loop iteration                                *)

\* main.py:371, 390
eraser_color_of(white) == IF white THEN WHITE ELSE BLACK

\* main.py:239, 383, 559, 565
background_color_of(white) == IF white THEN WHITE ELSE BLACK

\* The mutant of drawing_calls: a dot drawn on the first frame of a stroke
drawing_calls_dot(is_pinching, drawing_point, last_point, erasing, white, color, thickness) ==
    IF is_pinching /\ Truthy(drawing_point)
    THEN <<[start |-> IF last_point # None THEN last_point ELSE drawing_point,
            end |-> drawing_point,
            color |-> IF erasing THEN IF white THEN WHITE ELSE BLACK ELSE color,
            thickness |-> thickness]>>
    ELSE <<>>

\* main.py:367-375: the draw_line calls of the frame, in order
drawing_calls(is_pinching, drawing_point, last_point, erasing, white, color, thickness) ==
    IF is_pinching /\ Truthy(drawing_point)
    THEN IF last_point # None
         THEN IF erasing
              THEN <<[start |-> last_point, end |-> drawing_point,
                      color |-> eraser_color_of(white), thickness |-> thickness]>>
              ELSE <<[start |-> last_point, end |-> drawing_point,
                      color |-> color, thickness |-> thickness]>>
         ELSE <<>>
    ELSE <<>>

\* The mutants of next_last_drawing_point: the reset of main.py:377-379
\* left out; the pinch left out of the test
next_last_drawing_point_noreset(is_pinching, drawing_point, last_point) ==
    IF is_pinching /\ Truthy(drawing_point) THEN drawing_point ELSE last_point

next_last_drawing_point_nopinch(is_pinching, drawing_point, last_point) ==
    IF Truthy(drawing_point) THEN drawing_point ELSE None

\* main.py:367, 376-379
next_last_drawing_point(is_pinching, drawing_point, last_point) ==
    IF is_pinching /\ Truthy(drawing_point) THEN drawing_point ELSE None

\* the surface after the frame's calls
RECURSIVE apply_calls(_, _)
apply_calls(canvas, calls) ==
    IF calls = <<>> THEN canvas
    ELSE apply_calls(draw_line(canvas, Head(calls).start, Head(calls).end,
                               Head(calls).color, Head(calls).thickness),
                     Tail(calls))

\* The mutants of color_state: the custom colour taken in RGB order; the
\* selection kept only while it is hovered
color_state_rgb(hit, sel_name, color, buttons, rgb) ==
    LET name1 == IF Truthy(hit[3]) THEN hit[1] ELSE sel_name
        erasing1 == IF Truthy(hit[3]) THEN hit[1] = "eraser" ELSE hit[2]
    IN  [name |-> name1, erasing |-> erasing1,
         color |-> IF name1 # NoName /\ ~erasing1
                   THEN IF name1 = "custom" THEN <<rgb[1], rgb[2], rgb[3]>>
                        ELSE IF name1 \in DOMAIN buttons THEN buttons[name1] ELSE color
                   ELSE color]

color_state_hovered(hit, sel_name, color, buttons, rgb) ==
    [name |-> hit[1], erasing |-> hit[2],
     color |-> IF Truthy(hit[3]) /\ hit[1] # "eraser" THEN hit[3] ELSE color]

\* main.py:452, 466-488: the selection after the frame's hit tests.
\* hit is check_color_selection's result, rgb the values after the wheel.
color_state(hit, sel_name, color, buttons, rgb) ==
    LET hovered_color == hit[1]
        selected_color == hit[3]
        name1 == IF Truthy(selected_color) THEN hovered_color ELSE sel_name
        erasing1 == IF Truthy(selected_color)
                    THEN hovered_color = "eraser"
                    ELSE hit[2]
        color1 == IF Truthy(selected_color)
                  THEN IF hovered_color = "eraser" THEN color
                       ELSE IF hovered_color = "custom"
                            THEN <<rgb[3], rgb[2], rgb[1]>>
                            ELSE selected_color
                  ELSE color
        color2 == IF name1 # NoName /\ ~erasing1
                  THEN IF name1 = "custom" THEN <<rgb[3], rgb[2], rgb[1]>>
                       ELSE IF name1 \in DOMAIN buttons THEN buttons[name1]
                            ELSE color1
                  ELSE color1
    IN  [name |-> name1, erasing |-> erasing1, color |-> color2]

-----------------------------------------------------------------------------
(* Bounds and inputs                                                        *)

\* the camera's resolution
FrameWidth == 640
FrameHeight == 480
\* loop iterations per run
MaxFrames == 3

\* index fingertip pixels (camera space) that reach, through the mapping:
\* the red, eraser and custom buttons, the colour wheel, the slider, a
\* blank place, and no panel point (left of the portrait window)
OnRed == <<161, 22>>
OnEraser == <<305, 22>>
OnCustom == <<340, 22>>
OnWheel == <<464, 72>>
OnSlider == <<442, 125>>
BlankA == <<320, 240>>
LeftOfPortrait == <<100, 240>>

\* a thumb tip close enough to pinch, and one too far
ThumbNear(p) == <<p[1] + 3, p[2] + 4>>
ThumbFar(p) == <<p[1] + 30, p[2] + 40>>

\* what get_fingertip returns (handtracker.py:41-83): None for no hand, or
\* the index and thumb pixels
NoHand == None
Hands ==
    {NoHand}
    \cup {<<p, ThumbNear(p)>> : p \in {OnRed, OnEraser, OnCustom, OnWheel, OnSlider,
                                       BlankA, LeftOfPortrait}}
    \cup {<<p, ThumbFar(p)>> : p \in {BlankA}}

\* cv2.waitKey(1) & 0xFF: no key (as any key the loop ignores), 'c', 't', ESC
NoKey == 255
Keys == {NoKey, 99, 116, 27}

\* mouse events: <<is left button down, x, y>> in window coordinates
MouseEvents ==
    {<<TRUE, 10, 10>>, <<TRUE, 130, 50>>, <<TRUE, 131, 30>>, <<TRUE, 70, 51>>,
     <<FALSE, 70, 30>>}

-----------------------------------------------------------------------------
(* camera.py and the errors of the main loop                                *)

\* camera.py:17-44 for a device that isOpened() or not
open_camera(is_opened) == IF ~is_opened THEN "RuntimeError" ELSE "camera"

\* camera.py:46-74 for a read that succeeds or not
get_frame(success) == IF ~success THEN "RuntimeError" ELSE "frame"

\* The mutant of uncaught: the error caught and the iteration started again
uncaught_retry(error) == "frame"

\* main.py:108-109, 192, 248-250: no try statement encloses the calls, the
\* error ends the program
uncaught(error) == "crashed"

-----------------------------------------------------------------------------
(* Spec: the main loop                                                      *)

NoObs ==
    [index |-> None, thumb |-> None, is_pinching |-> FALSE, drawing_point |-> None,
     panel_point |-> None, last_at_start |-> None, name_at_draw |-> NoName,
     erasing_at_draw |-> FALSE, white_at_draw |-> TRUE, color_at_draw |-> BLACK,
     rgb_at_draw |-> <<0, 0, 0>>, thickness_at_draw |-> initial_line_thickness,
     calls |-> <<>>, hovered |-> NoName, wheel_color |-> None,
     run_len |-> 0, run_draws |-> 0, since_release |-> -1]

NoPrev ==
    [hand |-> FALSE, is_pinching |-> FALSE, drawing |-> FALSE, drawing_point |-> None,
     run_len |-> 0]

\* some pixel of the surface is not of the background colour: where the
\* fill is the background, a pixel that a shape of another colour has
\* written to and that no later shape of the background colour covers whole
HasStrokes(canvas, white) ==
    IF canvas.fill # background_color_of(white)
    THEN \E p \in CanvasPixels(canvas) : PixelAt(canvas, p) # Solid(background_color_of(white))
    ELSE \E i \in DOMAIN canvas.paint :
            /\ canvas.paint[i].color # background_color_of(white)
            /\ \E p \in ShapeBox(canvas, canvas.paint[i]) :
                    /\ Covers(canvas.paint[i], p)
                    /\ PixelAt(canvas, p) # Solid(background_color_of(white))

\* the record of a step: key is the key a key step read (-1 for the other
\* steps), click the place of a left click that the callback acted on
Event(kind) ==
    [kind |-> kind, strokes_before |-> FALSE, white_before |-> TRUE, created |-> FALSE,
     key |-> -1, click |-> None]

\* main.py:104-244: the state of the module when it starts
MainInit ==
    /\ pc = "start"
    /\ last_drawing_point = None
    /\ is_erasing = FALSE
    /\ current_drawing_color = BLACK
    /\ canvas_is_white = TRUE
    /\ selected_color_name = NoName
    /\ red_value = 0
    /\ green_value = 0
    /\ blue_value = 0
    /\ line_thickness = initial_line_thickness
    /\ color_buttons = initial_color_buttons
    /\ drawing_canvas = create_canvas(drawing_area_height, drawing_area_width, WHITE)
    /\ frames = 0
    /\ obs = NoObs
    /\ prev = NoPrev
    /\ event = Event("init")

\* controls.py:34
WheelInit ==
    /\ color_wheel_cache = [present |-> FALSE, size |-> 0, id |-> 0]
    /\ wheel_log = [calls |-> 0, generations |-> 0, radius |-> 0, prev_radius |-> 0,
                    regenerated |-> FALSE, present_before |-> FALSE, size_before |-> 0,
                    image_before |-> 0, image_used |-> 0, one_radius |-> TRUE]

MapIdle ==
    /\ m_in = [fw |-> 0, fh |-> 0, pt |-> None, pw |-> 0, ph |-> 0]
    /\ m_out = [done |-> FALSE, drawing_point |-> None, thumb |-> None,
                panel |-> None, back |-> None]

\* one call of draw_color_wheel: the cache and the record of the call
WheelCall(radius) ==
    LET cache1 == draw_color_wheel_cache(color_wheel_cache, radius, wheel_log.generations + 1)
        regenerated == (~color_wheel_cache.present) \/ cache1.id # color_wheel_cache.id
    IN  /\ color_wheel_cache' = cache1
        /\ wheel_log' = [calls |-> wheel_log.calls + 1,
                         generations |-> wheel_log.generations + (IF regenerated THEN 1 ELSE 0),
                         radius |-> radius,
                         prev_radius |-> wheel_log.radius,
                         regenerated |-> regenerated,
                         present_before |-> color_wheel_cache.present,
                         size_before |-> color_wheel_cache.size,
                         image_before |-> color_wheel_cache.id,
                         image_used |-> cache1.id,
                         one_radius |-> wheel_log.one_radius
                                        /\ (wheel_log.calls > 0 => radius = wheel_log.radius)]

\* main.py:250-552: one loop iteration up to waitKey, on the hand the tracker
\* reports for the frame
ProcessFrame(hand) ==
    /\ pc = "frame"
    /\ frames < MaxFrames
    /\ get_frame(TRUE) = "frame"
    /\ LET index_finger_point == IF hand = None THEN None ELSE hand[1]
           thumb_point == IF hand = None THEN None ELSE hand[2]
           cropped == crop_camera_to_portrait(FrameWidth, FrameHeight)
           is_pinching == main_is_pinching(index_finger_point, thumb_point, FrameWidth)
           drawing_point == inline_drawing_point(index_finger_point, FrameWidth, FrameHeight,
                                cropped[1], cropped[2], drawing_area_width, drawing_area_height)
           thumb == inline_thumb_point(thumb_point, FrameWidth, FrameHeight)
           calls == drawing_calls(is_pinching, drawing_point, last_drawing_point, is_erasing,
                                  canvas_is_white, current_drawing_color, line_thickness)
           buttons1 == [color_buttons EXCEPT !["eraser"] = eraser_color_of(canvas_is_white)]
           wheel_x == right_panel_width - color_wheel_radius - 50
           wheel_y == color_wheel_center_y
           color_wheel_coords == draw_color_wheel(wheel_x, wheel_y, color_wheel_radius)
           slider_coords == draw_sliders(wheel_x, wheel_y, color_wheel_radius)
           panel_finger_point == map_to_panel_coordinates(index_finger_point, FrameWidth,
                                    FrameHeight, cropped[1], cropped[2],
                                    right_panel_width, right_panel_height)
           hit == check_color_selection(panel_finger_point, color_buttons_items(buttons1))
           wheel_color == check_color_wheel_interaction(panel_finger_point, color_wheel_coords)
           rgb == wheel_rgb_update(wheel_color, <<red_value, green_value, blue_value>>)
           values == check_slider_interaction(panel_finger_point, slider_coords,
                                              <<rgb[1], rgb[2], rgb[3], line_thickness>>)
           state == color_state(hit, selected_color_name, current_drawing_color, buttons1, rgb)
           drawing == is_pinching /\ Truthy(drawing_point)
           rendered == left_panel_render(drawing_canvas, canvas_is_white)
           canvas_drawn == apply_calls(rendered.drawing_canvas, calls)
       IN  /\ drawing_canvas' = canvas_after_overlay(canvas_drawn,
                                                     background_color_of(canvas_is_white))
           /\ last_drawing_point' = next_last_drawing_point(is_pinching, drawing_point,
                                                            last_drawing_point)
           /\ color_buttons' = buttons1
           /\ WheelCall(color_wheel_radius)
           /\ red_value' = rgb[1]
           /\ green_value' = rgb[2]
           /\ blue_value' = rgb[3]
           /\ line_thickness' = values[4]
           /\ selected_color_name' = state.name
           /\ is_erasing' = state.erasing
           /\ current_drawing_color' = state.color
           /\ obs' = [index |-> index_finger_point, thumb |-> thumb,
                      is_pinching |-> is_pinching,
                      drawing_point |-> drawing_point, panel_point |-> panel_finger_point,
                      last_at_start |-> last_drawing_point,
                      name_at_draw |-> selected_color_name,
                      erasing_at_draw |-> is_erasing,
                      white_at_draw |-> canvas_is_white,
                      color_at_draw |-> current_drawing_color,
                      rgb_at_draw |-> <<red_value, green_value, blue_value>>,
                      thickness_at_draw |-> line_thickness,
                      calls |-> calls, hovered |-> hit[1], wheel_color |-> wheel_color,
                      run_len |-> IF drawing THEN obs.run_len + 1 ELSE 0,
                      run_draws |-> IF drawing
                                    THEN (IF obs.run_len = 0 THEN 0 ELSE obs.run_draws) + Len(calls)
                                    ELSE 0,
                      since_release |-> IF ~is_pinching THEN 0
                                        ELSE IF drawing /\ obs.since_release >= 0
                                             THEN obs.since_release + 1
                                             ELSE -1]
           /\ prev' = [hand |-> obs.index # None,
                       is_pinching |-> obs.is_pinching,
                       drawing |-> obs.is_pinching /\ obs.drawing_point # None,
                       drawing_point |-> IF obs.is_pinching THEN obs.drawing_point ELSE None,
                       run_len |-> obs.run_len]
    /\ frames' = frames + 1
    /\ event' = Event("frame")
    /\ pc' = "waitkey"
    /\ UNCHANGED <<canvas_is_white, mapVars, overlayVars, controlVars>>

\* main.py:108-109, 192: the camera opened and the first frames read before
\* the loop; the state is shown with the values main.py:114-189 give it
Startup(is_opened, success) ==
    /\ pc = "start"
    /\ pc' = IF open_camera(is_opened) = "RuntimeError" \/ get_frame(success) = "RuntimeError"
             THEN uncaught("RuntimeError")
             ELSE "frame"
    /\ event' = IF open_camera(is_opened) = "RuntimeError" \/ get_frame(success) = "RuntimeError"
                THEN Event("capture_error")
                ELSE Event("start")
    /\ UNCHANGED <<last_drawing_point, is_erasing, current_drawing_color, canvas_is_white,
                   selected_color_name, red_value, green_value, blue_value, line_thickness,
                   color_buttons, drawing_canvas, frames, obs, prev, wheelVars, mapVars,
                   overlayVars, controlVars>>

\* camera.py:46-74 raising at main.py:250: nothing catches the RuntimeError
CaptureFailure ==
    /\ pc = "frame"
    /\ get_frame(FALSE) = "RuntimeError"
    /\ pc' = uncaught("RuntimeError")
    /\ event' = Event("capture_error")
    /\ UNCHANGED <<last_drawing_point, is_erasing, current_drawing_color, canvas_is_white,
                   selected_color_name, red_value, green_value, blue_value, line_thickness,
                   color_buttons, drawing_canvas, frames, obs, prev, wheelVars, mapVars,
                   overlayVars, controlVars>>

\* main.py:237-239 and 563-565: the background toggled and drawing_canvas
\* bound to the array create_canvas makes
toggle_canvas(white) ==
    [white |-> ~white,
     canvas |-> create_canvas(drawing_area_height, drawing_area_width,
                              background_color_of(~white)),
     created |-> TRUE]

\* the record of a toggle: the surface it replaced
ToggleEvent ==
    [kind |-> "toggle", strokes_before |-> HasStrokes(drawing_canvas, canvas_is_white),
     white_before |-> canvas_is_white,
     created |-> toggle_canvas(canvas_is_white).created,
     key |-> -1, click |-> None]

\* The mutant of in_toggle_button: the right and bottom edges left open to
\* the whole left panel
in_toggle_button_open(x, y) ==
    /\ x < left_panel_width
    /\ toggle_button_x <= x
    /\ toggle_button_y <= y

\* main.py:226-235: a click on the left panel inside the toggle button
in_toggle_button(x, y) ==
    /\ x < left_panel_width
    /\ toggle_button_x <= x /\ x <= toggle_button_x + toggle_button_width
    /\ toggle_button_y <= y /\ y <= toggle_button_y + toggle_button_height

\* The mutant of after_key: ESC handled as any other key
after_key_continue(key) == "frame"

\* main.py:248, 567-569: ESC breaks out of the loop, every other key goes on
\* to the next iteration
after_key(key) == IF key = 27 THEN "exited" ELSE "frame"

\* main.py:211-240: the mouse callback, run while the loop waits in waitKey
handle_mouse_click(lbuttondown, x, y) ==
    /\ pc = "waitkey"
    /\ IF lbuttondown /\ in_toggle_button(x, y)
       THEN /\ canvas_is_white' = toggle_canvas(canvas_is_white).white
            /\ drawing_canvas' = toggle_canvas(canvas_is_white).canvas
            /\ event' = [ToggleEvent EXCEPT !.click = <<x, y>>]
       ELSE UNCHANGED <<canvas_is_white, drawing_canvas, event>>
    /\ UNCHANGED <<pc, last_drawing_point, is_erasing, current_drawing_color,
                   selected_color_name, red_value, green_value, blue_value, line_thickness,
                   color_buttons, frames, obs, prev, wheelVars, mapVars,
                   overlayVars, controlVars>>

\* main.py:556-569: the key read at the end of the iteration
KeyPress(key) ==
    /\ pc = "waitkey"
    /\ IF key = 99
       THEN /\ drawing_canvas' = clear_canvas(drawing_canvas, background_color_of(canvas_is_white))
            /\ UNCHANGED canvas_is_white
       ELSE IF key = 116
            THEN /\ canvas_is_white' = toggle_canvas(canvas_is_white).white
                 /\ drawing_canvas' = toggle_canvas(canvas_is_white).canvas
            ELSE UNCHANGED <<canvas_is_white, drawing_canvas>>
    /\ pc' = after_key(key)
    /\ event' = IF key = 116 THEN [ToggleEvent EXCEPT !.key = key]
                 ELSE IF key = 27 THEN [Event("exit") EXCEPT !.key = key]
                      ELSE [Event("key") EXCEPT !.key = key]
    /\ UNCHANGED <<last_drawing_point, is_erasing, current_drawing_color,
                   selected_color_name, red_value, green_value, blue_value, line_thickness,
                   color_buttons, frames, obs, prev, wheelVars, mapVars,
                   overlayVars, controlVars>>

\* no compositor run and no control test in progress
OverlayIdle ==
    /\ o_in = [camera_frame |-> <<>>, canvas |-> <<>>, background_color |-> WHITE]
    /\ o_out = [done |-> FALSE, result |-> <<>>, camera_frame |-> <<>>, canvas |-> <<>>]

ControlIdle ==
    /\ c_in = [op |-> "none"]
    /\ c_out = [done |-> FALSE, wheel_color |-> None, rgb |-> None, selection |-> None,
                values |-> None]

Init == MainInit /\ WheelInit /\ MapIdle /\ OverlayIdle /\ ControlIdle

Next ==
    \/ \E is_opened \in BOOLEAN, success \in BOOLEAN : Startup(is_opened, success)
    \/ \E hand \in Hands : ProcessFrame(hand)
    \/ CaptureFailure
    \/ \E e \in MouseEvents : handle_mouse_click(e[1], e[2], e[3])
    \/ \E key \in Keys : KeyPress(key)

Spec == Init /\ [][Next]_vars

-----------------------------------------------------------------------------
(* SpecMap: the coordinate mapping on every point of small frames           *)

MinFrameDim == 2
MaxFrameDim == 6
MaxPanelDim == 5

MapInputs ==
    [fw : MinFrameDim..MaxFrameDim, fh : MinFrameDim..MaxFrameDim,
     pt : (-1..(MaxFrameDim + 1)) \X (-1..(MaxFrameDim + 1)),
     pw : 1..MaxPanelDim, ph : 1..MaxPanelDim]

MapInit ==
    /\ m_in \in {i \in MapInputs : i.pt[1] <= i.fw + 1 /\ i.pt[2] <= i.fh + 1}
    /\ m_out = [done |-> FALSE, drawing_point |-> None, thumb |-> None,
                panel |-> None, back |-> None]

\* main.py:254-341 and 448 on one point: the inline mapping of the index
\* fingertip, the inline test of the thumb at the same pixel, the inverse
\* scale of the pinch line, and map_to_panel_coordinates; the drawing area
\* and the panel have the same size, as in main.py:157-162 and 199-200
MapPoint ==
    /\ ~m_out.done
    /\ LET cropped == crop_camera_to_portrait(m_in.fw, m_in.fh)
           drawing_point == inline_drawing_point(m_in.pt, m_in.fw, m_in.fh,
                                cropped[1], cropped[2], m_in.pw, m_in.ph)
           thumb == inline_thumb_point(m_in.pt, m_in.fw, m_in.fh)
       IN  m_out' = [done |-> TRUE,
                     drawing_point |-> drawing_point,
                     thumb |-> thumb,
                     back |-> IF Truthy(thumb) /\ Truthy(drawing_point)
                              THEN inverse_scale(drawing_point, cropped[1], cropped[2],
                                                 m_in.pw, m_in.ph)
                              ELSE None,
                     panel |-> map_to_panel_coordinates(m_in.pt, m_in.fw, m_in.fh,
                                   cropped[1], cropped[2], m_in.pw, m_in.ph)]
    /\ UNCHANGED <<m_in, mainVars, wheelVars, overlayVars, controlVars>>

SpecMapInit == MainInit /\ WheelInit /\ MapInit /\ OverlayIdle /\ ControlIdle

SpecMap == SpecMapInit /\ [][MapPoint]_vars

-----------------------------------------------------------------------------
(* SpecWheel: sequences of draw_color_wheel calls                           *)

MaxRadius == 3
MaxWheelCalls == 5

\* the radius of the main loop and small ones
Radii == (1..MaxRadius) \cup {color_wheel_radius}

DrawColorWheel(radius) ==
    /\ wheel_log.calls < MaxWheelCalls
    /\ WheelCall(radius)
    /\ UNCHANGED <<mainVars, mapVars, overlayVars, controlVars>>

WheelNext == \E radius \in Radii : DrawColorWheel(radius)

SpecWheel == Init /\ [][WheelNext]_vars

-----------------------------------------------------------------------------
(* SpecOverlay: overlay_canvas on every small frame and surface             *)

MaxPixels == 2

\* surface pixels on both sides of the two thresholds, and a red stroke
CanvasColors ==
    {WHITE, BLACK, <<250, 250, 250>>, <<251, 251, 251>>, <<5, 5, 5>>, <<6, 6, 6>>,
     <<0, 0, 255>>}

FrameColors == {WHITE, BLACK, <<10, 20, 30>>, <<200, 100, 50>>}

BackgroundColors == {WHITE, BLACK, <<255, 0, 0>>}

Images(colors, size) == [1..size -> colors]

OneColoured(image) == \A i \in 1..Len(image) : image[i] = image[1]

\* a frame of 1..MaxPixels pixels; a surface of the frame's shape, or a
\* one-coloured surface of another shape
OverlayInit ==
    /\ \E n \in 1..MaxPixels, k \in 1..MaxPixels :
         \E frame \in Images(FrameColors, n), canvas \in Images(CanvasColors, k),
            background_color \in BackgroundColors :
             /\ k = n \/ OneColoured(canvas)
             /\ o_in = [camera_frame |-> frame, canvas |-> canvas,
                        background_color |-> background_color]
    /\ o_out = [done |-> FALSE, result |-> <<>>, camera_frame |-> <<>>, canvas |-> <<>>]

\* canvas.py:78-129: one call; the two arrays passed in are written by no
\* statement of the function
Overlay ==
    /\ ~o_out.done
    /\ o_out' = [done |-> TRUE,
                 result |-> overlay_canvas(o_in.camera_frame, o_in.canvas,
                                           o_in.background_color),
                 camera_frame |-> o_in.camera_frame,
                 canvas |-> o_in.canvas]
    /\ UNCHANGED <<o_in, mainVars, wheelVars, mapVars, controlVars>>

SpecOverlayInit == MainInit /\ WheelInit /\ MapIdle /\ OverlayInit /\ ControlIdle

SpecOverlay == SpecOverlayInit /\ [][Overlay]_vars

-----------------------------------------------------------------------------
(* SpecControls: the hit tests of controls.py on the points around the      *)
(* controls, and what the main loop does with their results                 *)

MaxWheelRadius == 4

\* the wheel and slider of the main loop (main.py:435-443)
main_wheel_x == right_panel_width - color_wheel_radius - 50
MainWheel == draw_color_wheel(main_wheel_x, color_wheel_center_y, color_wheel_radius)
MainSlider == draw_sliders(main_wheel_x, color_wheel_center_y, color_wheel_radius)

\* a small wheel of radius r with its centre at (r + 1, r + 1), and the
\* slider under it
SmallWheel(r) == draw_color_wheel(r + 1, r + 1, r)
SmallSlider(r) == draw_sliders(r + 1, r + 1, r)

\* points on both sides of the two circles of the main wheel
MainWheelPoints ==
    LET cx == MainWheel.center_x
        cy == MainWheel.center_y
    IN  {<<cx, cy>>, <<cx + 25, cy>>, <<cx + 26, cy>>, <<cx + 27, cy>>,
         <<cx + 80, cy>>, <<cx + 81, cy>>, <<cx + 48, cy + 64>>, <<cx + 48, cy + 65>>,
         <<cx - 80, cy>>, <<cx, cy - 80>>, <<cx - 20, cy - 17>>, <<cx - 57, cy + 57>>}

RgbValues == {<<0, 0, 0>>, <<10, 20, 30>>}

WheelInputs ==
    {[op |-> "wheel", point |-> p, coords |-> MainWheel, rgb |-> v] :
        p \in MainWheelPoints \cup {None}, v \in RgbValues}
    \cup UNION {{[op |-> "wheel", point |-> p, coords |-> SmallWheel(r), rgb |-> v] :
                    p \in (0..(2 * r + 2)) \X (0..(2 * r + 2)), v \in RgbValues} :
                 r \in 1..MaxWheelRadius}

\* three buttons that overlap, the eraser among them, in three orders
OverlapA == <<"a", <<0, 0, 2, 2>>, <<1, 1, 1>>>>
OverlapEraser == <<"eraser", <<1, 1, 3, 3>>, <<2, 2, 2>>>>
OverlapB == <<"b", <<2, 2, 4, 4>>, <<3, 3, 3>>>>
OverlapDicts ==
    {<<OverlapA, OverlapEraser, OverlapB>>, <<OverlapEraser, OverlapB, OverlapA>>,
     <<OverlapB, OverlapA, OverlapEraser>>}

\* corners of the buttons of the main loop, points beside them and between
MainButtonPoints ==
    {None, <<10, 10>>, <<80, 80>>, <<81, 80>>, <<9, 10>>, <<85, 40>>, <<90, 10>>,
     <<330, 10>>, <<400, 80>>, <<401, 80>>, <<365, 81>>, <<410, 80>>, <<480, 10>>,
     <<481, 10>>, <<200, 200>>}

SelectionInputs ==
    {[op |-> "selection", point |-> p, dict |-> color_buttons_items(initial_color_buttons)] :
        p \in MainButtonPoints}
    \cup {[op |-> "selection", point |-> p, dict |-> d] :
            p \in ((-1)..5) \X ((-1)..5), d \in OverlapDicts}

ControlValues == {<<0, 0, 0, 5>>, <<10, 20, 30, 1>>, <<255, 0, 128, 20>>}

\* the points of a slider's rows, of the rows above and below it, and of
\* the columns beside it
SliderPoints(rect) ==
    ((rect[1] - 1)..(rect[3] + 1)) \X {rect[2] - 1, rect[2], rect[4], rect[4] + 1}

SliderInputs ==
    {[op |-> "slider", point |-> p, rect |-> MainSlider, values |-> v] :
        p \in SliderPoints(MainSlider) \cup {None}, v \in ControlValues}
    \cup UNION {{[op |-> "slider", point |-> p, rect |-> SmallSlider(r), values |-> v] :
                    p \in SliderPoints(SmallSlider(r)), v \in ControlValues} :
                 r \in 1..MaxWheelRadius}

NoControlResult ==
    [done |-> FALSE, wheel_color |-> None, rgb |-> None, selection |-> None,
     values |-> None, hsv_color |-> None, generated_hsv |-> None]

ControlInit ==
    /\ c_in \in WheelInputs \cup SelectionInputs \cup SliderInputs
    /\ c_out = NoControlResult

\* main.py:454-457: the wheel test of a frame and the RGB values after it
ControlWheel ==
    /\ c_in.op = "wheel"
    /\ ~c_out.done
    /\ LET wheel_color == check_color_wheel_interaction(c_in.point, c_in.coords)
       IN  c_out' = [NoControlResult EXCEPT !.done = TRUE, !.wheel_color = wheel_color,
                                           !.rgb = wheel_rgb_update(wheel_color, c_in.rgb),
                                           !.hsv_color = wheel_hsv(c_in.point, c_in.coords),
                                           !.generated_hsv =
                                               generated_hsv_at(c_in.point, c_in.coords)]
    /\ UNCHANGED <<c_in, mainVars, wheelVars, mapVars, overlayVars>>

\* main.py:452: the button test of a frame
ControlSelection ==
    /\ c_in.op = "selection"
    /\ ~c_out.done
    /\ c_out' = [NoControlResult EXCEPT !.done = TRUE,
                     !.selection = check_color_selection(c_in.point, c_in.dict)]
    /\ UNCHANGED <<c_in, mainVars, wheelVars, mapVars, overlayVars>>

\* main.py:459-462: the slider test of a frame
ControlSlider ==
    /\ c_in.op = "slider"
    /\ ~c_out.done
    /\ c_out' = [NoControlResult EXCEPT !.done = TRUE,
                     !.values = check_slider_interaction(c_in.point, c_in.rect, c_in.values)]
    /\ UNCHANGED <<c_in, mainVars, wheelVars, mapVars, overlayVars>>

ControlNext == ControlWheel \/ ControlSelection \/ ControlSlider

SpecControlsInit == MainInit /\ WheelInit /\ MapIdle /\ OverlayIdle /\ ControlInit

SpecControls == SpecControlsInit /\ [][ControlNext]_vars

-----------------------------------------------------------------------------
(* SpecPinch: is_pinch and the pinch test of the main loop on pairs of      *)
(* fingertip pixels at and around the threshold distance                    *)

\* the largest offset of the thumb from the index finger, on each axis
MaxPinchOffset == 10

\* a frame width whose threshold distance is a whole number of pixels (3),
\* and the camera's width
PinchWidths == {200, FrameWidth}

PinchIndexPoints == {<<50, 50>>, BlankA}

PinchInputs ==
    {[op |-> "pinch", index_finger_point |-> p,
      thumb_point |-> <<p[1] + d[1], p[2] + d[2]>>, frame_width |-> w] :
        p \in PinchIndexPoints,
        d \in ((-MaxPinchOffset)..MaxPinchOffset) \X ((-MaxPinchOffset)..MaxPinchOffset),
        w \in PinchWidths}
    \cup {[op |-> "pinch", index_finger_point |-> a, thumb_point |-> b, frame_width |-> w] :
            a \in PinchIndexPoints \cup {None}, b \in {None}, w \in PinchWidths}
    \cup {[op |-> "pinch", index_finger_point |-> a, thumb_point |-> b, frame_width |-> w] :
            a \in {None}, b \in PinchIndexPoints, w \in PinchWidths}

PinchInit ==
    /\ c_in \in PinchInputs
    /\ c_out = [done |-> FALSE, is_pinch |-> FALSE, swapped |-> FALSE, is_pinching |-> FALSE]

\* handtracker.py:85-117 called with the points in both orders, and
\* main.py:261
Pinch ==
    /\ c_in.op = "pinch"
    /\ ~c_out.done
    /\ c_out' = [done |-> TRUE,
                 is_pinch |-> is_pinch(c_in.index_finger_point, c_in.thumb_point,
                                       c_in.frame_width),
                 swapped |-> is_pinch(c_in.thumb_point, c_in.index_finger_point,
                                      c_in.frame_width),
                 is_pinching |-> main_is_pinching(c_in.index_finger_point, c_in.thumb_point,
                                                  c_in.frame_width)]
    /\ UNCHANGED <<c_in, mainVars, wheelVars, mapVars, overlayVars>>

SpecPinchInit == MainInit /\ WheelInit /\ MapIdle /\ OverlayIdle /\ PinchInit

SpecPinch == SpecPinchInit /\ [][Pinch]_vars

-----------------------------------------------------------------------------
(* The claims                                                               *)
(*                                                                          *)
(* obs is the frame processed last: its inputs, the state its draw step     *)
(* read, and the draw_line calls it made. obs.run_len counts the frames of  *)
(* the current run of drawing frames (pinch active and a mapped point),     *)
(* obs.run_draws the calls of the run, obs.since_release the drawing frames *)
(* since a frame with pinch false (-1 when none is known). prev is the      *)
(* frame before obs.                                                        *)

\* C1: in a run of N >= 1 consecutive drawing frames (pinch active, a valid
\* drawing point, the frame before the run not drawing) the loop has made
\* exactly N-1 draw_line calls, and the call of the run's frame k+1 goes
\* from the drawing point of frame k to the drawing point of frame k+1.
C1_RunOfNFramesDrawsNMinus1 ==
    obs.run_len >= 1 =>
        /\ obs.run_draws = obs.run_len - 1
        /\ obs.run_len = 1 => obs.calls = <<>>
        /\ obs.run_len >= 2 =>
             /\ Len(obs.calls) = 1
             /\ prev.run_len = obs.run_len - 1
             /\ obs.calls[1].start = prev.drawing_point
             /\ obs.calls[1].end = obs.drawing_point

C1_Witness == obs.run_len = 3 /\ obs.run_draws = 2

\* C2: a frame with pinch false leaves last_drawing_point None; the next
\* frame, if pinching on a valid point, draws no segment and only records
\* its point; the frame after that, if still pinching on a valid point,
\* draws one segment.
C2_ReleaseRestartsTheStroke ==
    /\ (frames >= 1 /\ ~obs.is_pinching) => last_drawing_point = None
    /\ obs.since_release = 1 =>
         /\ obs.calls = <<>>
         /\ last_drawing_point = obs.drawing_point
    /\ obs.since_release = 2 =>
         /\ Len(obs.calls) = 1
         /\ last_drawing_point = obs.drawing_point

C2_Witness == obs.since_release = 2 /\ Len(obs.calls) = 1

\* C3: no segment is drawn across a gap. Every draw_line call of a frame
\* starts at the drawing point of the frame just before it, which had the
\* pinch active and a mapped point; a frame whose fingertip is missing or
\* maps to None leaves last_drawing_point None and draws nothing.
C3_NoSegmentAcrossAGap ==
    /\ \A i \in 1..Len(obs.calls) :
         /\ prev.is_pinching
         /\ prev.drawing_point # None
         /\ obs.calls[i].start = prev.drawing_point
    /\ (frames >= 1 /\ (obs.index = None \/ obs.drawing_point = None)) =>
         /\ last_drawing_point = None
         /\ obs.calls = <<>>

\* the pinch held over a frame that mapped to no point, and the finger back
C3_Witness ==
    /\ prev.is_pinching /\ prev.drawing_point = None
    /\ obs.is_pinching /\ obs.drawing_point # None
    /\ obs.calls = <<>>
    /\ frames >= 3

\* the colour a remembered selection stands for when a segment is drawn
SelectionColor(name, rgb, white) ==
    IF name = "eraser" THEN background_color_of(white)
    ELSE IF name = "custom" THEN <<rgb[3], rgb[2], rgb[1]>>
         ELSE initial_color_buttons[name]

\* C4: the selection persists. Once a button B is the remembered selection,
\* every segment a frame draws has B's selection (B's colour, the custom
\* RGB colour, or the background colour for the eraser), the finger over a
\* button or not, until another button is hovered.
C4_SelectionPersists ==
    \A i \in 1..Len(obs.calls) :
        obs.name_at_draw # NoName =>
            obs.calls[i].color =
                SelectionColor(obs.name_at_draw, obs.rgb_at_draw, obs.white_at_draw)

\* C5: while the eraser is the remembered selection, every segment drawn has
\* the background colour the canvas has at the draw.
C5_EraserHasCurrentBackground ==
    \A i \in 1..Len(obs.calls) :
        obs.name_at_draw = "eraser" =>
            obs.calls[i].color = background_color_of(obs.white_at_draw)

\* C6: a toggle of the background (key 't' or a click in the toggle button)
\* flips canvas_is_white and leaves a surface of the same shape with every
\* pixel the new background colour, the strokes gone; after a toggle from
\* white the surface is all black and the eraser colour is black. The
\* eraser colour the program holds is the colour of the eraser entry of
\* color_buttons (main.py:394) and, while the eraser is the remembered
\* selection, current_drawing_color (main.py:486-488). The toggle writes
\* neither (main.py:237-239, 563-565): both keep the colour of the old
\* background until the next frame, whose draw step comes first (C5).
C6_ToggleLeavesEraserOfNewBackground ==
    event.kind = "toggle" =>
        /\ canvas_is_white = ~event.white_before
        /\ drawing_canvas.height = drawing_area_height
        /\ drawing_canvas.width = drawing_area_width
        /\ AllPixels(drawing_canvas, background_color_of(canvas_is_white))
        /\ ~HasStrokes(drawing_canvas, canvas_is_white)
        /\ event.white_before =>
             /\ AllPixels(drawing_canvas, BLACK)
             /\ color_buttons["eraser"] = BLACK
             /\ selected_color_name = "eraser" => current_drawing_color = BLACK

\* The part of C6 about the surface, which the toggle does bring about: the
\* flag flipped, a surface of the same shape, every pixel the new background
\* colour, the strokes gone, all black after a toggle from white.
C6_ToggleRecreatesTheSurface ==
    event.kind = "toggle" =>
        /\ canvas_is_white = ~event.white_before
        /\ drawing_canvas.height = drawing_area_height
        /\ drawing_canvas.width = drawing_area_width
        /\ AllPixels(drawing_canvas, background_color_of(canvas_is_white))
        /\ ~HasStrokes(drawing_canvas, canvas_is_white)
        /\ event.white_before => AllPixels(drawing_canvas, BLACK)

\* a toggle from white of a surface that had strokes
C6_Witness ==
    /\ event.kind = "toggle"
    /\ event.white_before
    /\ event.strokes_before

\* a toggle from white with the eraser the remembered selection: the eraser
\* entry and the drawing colour are still white over the black surface
C6_StaleEraser ==
    /\ event.kind = "toggle"
    /\ event.white_before
    /\ selected_color_name = "eraser"
    /\ color_buttons["eraser"] = WHITE
    /\ current_drawing_color = WHITE
    /\ AllPixels(drawing_canvas, BLACK)

\* the portrait-relative coordinates of a camera point
PortraitRelative(p, width, height) ==
    LET crop_size == crop_size_of(width, height)
    IN  <<p[1] - crop_start(width, crop_size) - portrait_start_x_of(crop_size),
          p[2] - crop_start(height, crop_size)>>

\* C7: for every point outside the square crop (crop_size pixels from
\* crop_start) or outside the portrait window (portrait_width pixels from
\* portrait_start_x), map_to_panel_coordinates and the inline mapping
\* return None.
C7_OutsideTheCropIsNone ==
    (m_out.done /\ ~InPortraitCrop(m_in.pt, m_in.fw, m_in.fh)) =>
        /\ m_out.panel = None
        /\ m_out.drawing_point = None

\* C8 as claimed: for every point inside the portrait window and every
\* panel size, the mapping followed by the inverse scale is within one
\* pixel of the portrait-relative coordinate on each axis.
C8_RoundTripAnyPanel ==
    (m_out.done /\ InPortraitCrop(m_in.pt, m_in.fw, m_in.fh)) =>
        LET rel == PortraitRelative(m_in.pt, m_in.fw, m_in.fh)
        IN  /\ m_out.back # None
            /\ Abs(m_out.back[1] - rel[1]) <= 1
            /\ Abs(m_out.back[2] - rel[2]) <= 1

\* C8 as amended: the round trip is within one pixel on each axis whose
\* panel dimension is at least the cropped dimension.
C8_RoundTripUpscaling ==
    (m_out.done /\ InPortraitCrop(m_in.pt, m_in.fw, m_in.fh)) =>
        LET rel == PortraitRelative(m_in.pt, m_in.fw, m_in.fh)
            cropped == crop_camera_to_portrait(m_in.fw, m_in.fh)
        IN  /\ m_out.back # None
            /\ m_in.pw >= cropped[1] => Abs(m_out.back[1] - rel[1]) <= 1
            /\ m_in.ph >= cropped[2] => Abs(m_out.back[2] - rel[2]) <= 1

\* an upscaling round trip that loses a pixel to the truncation
C8_Witness ==
    /\ m_out.done
    /\ InPortraitCrop(m_in.pt, m_in.fw, m_in.fh)
    /\ m_in.pw > crop_camera_to_portrait(m_in.fw, m_in.fh)[1]
    /\ m_in.ph > crop_camera_to_portrait(m_in.fw, m_in.fh)[2]
    /\ m_out.back # None
    /\ m_out.back # PortraitRelative(m_in.pt, m_in.fw, m_in.fh)

\* C9: the three call sites agree. For every camera point and frame size
\* the inline mapping of the finger, the inline test of the thumb and
\* map_to_panel_coordinates accept the same points, and for the same
\* destination size the inline drawing point is the point
\* map_to_panel_coordinates returns.
C9_CallSitesAgree ==
    m_out.done =>
        /\ m_out.drawing_point = m_out.panel
        /\ (m_out.thumb = None) <=> (m_out.panel = None)
        /\ m_out.thumb # None =>
             m_out.thumb = PortraitRelative(m_in.pt, m_in.fw, m_in.fh)

\* a point on the far edge of the window, accepted at the three sites
C9_Witness ==
    /\ m_out.done
    /\ m_out.panel # None
    /\ m_out.thumb # None
    /\ m_out.drawing_point # None
    /\ ~InPortraitCrop(m_in.pt, m_in.fw, m_in.fh)

\* C10: the wheel image is generated by the first call and by a call whose
\* radius differs from that of the call before, and by no other call: a
\* call with the radius of the call before uses the image that was cached;
\* calls that all have one radius generate the wheel once.
C10_WheelCachedByRadius ==
    /\ wheel_log.calls = 1 => wheel_log.regenerated
    /\ wheel_log.calls >= 2 =>
         /\ wheel_log.regenerated <=> (wheel_log.radius # wheel_log.prev_radius)
         /\ wheel_log.radius = wheel_log.prev_radius =>
              wheel_log.image_used = wheel_log.image_before
    /\ wheel_log.calls >= 1 =>
         /\ color_wheel_cache.present
         /\ color_wheel_cache.size = 2 * wheel_log.radius
         /\ color_wheel_cache.id = wheel_log.image_used
    /\ (wheel_log.calls >= 1 /\ wheel_log.one_radius) => wheel_log.generations = 1

C10_Witness ==
    /\ wheel_log.calls >= 3
    /\ wheel_log.one_radius
    /\ wheel_log.radius = color_wheel_radius
    /\ wheel_log.generations = 1

\* C11: for a drawing surface whose every pixel is its background colour
\* (white with background (255,255,255), black with background (0,0,0)),
\* overlay_canvas returns the camera frame, pixel for pixel.
C11_BlankSurfaceShowsTheFrame ==
    (/\ o_out.done
     /\ o_in.background_color \in {WHITE, BLACK}
     /\ \A i \in 1..Len(o_in.canvas) : o_in.canvas[i] = o_in.background_color)
        => o_out.result = o_in.camera_frame

\* a blank black surface of another shape than the two-coloured frame
C11_Witness ==
    /\ o_out.done
    /\ o_in.background_color = BLACK
    /\ \A i \in 1..Len(o_in.canvas) : o_in.canvas[i] = BLACK
    /\ Len(o_in.canvas) # Len(o_in.camera_frame)
    /\ Len(o_in.camera_frame) = 2
    /\ o_in.camera_frame[1] # o_in.camera_frame[2]
    /\ o_out.result = o_in.camera_frame

\* C12: every pixel of the image overlay_canvas returns is the pixel of the
\* resized surface or the pixel of the frame, never a mix: the surface pixel
\* where it is drawn, the frame pixel elsewhere; on the white background a
\* pixel is drawn iff its luminance is at most 250, on any other background
\* iff its luminance is more than 5.
C12_StrokeOrLiveVideo ==
    o_out.done =>
        /\ Len(o_out.result) = Len(o_in.camera_frame)
        /\ \A i \in 1..Len(o_in.camera_frame) :
             LET surface == resize(o_in.canvas, Len(o_in.camera_frame))[i]
                 luminance == bgr2gray(surface)
                 drawn == IF o_in.background_color = WHITE
                          THEN luminance <= 250 ELSE luminance > 5
             IN  o_out.result[i] = IF drawn THEN surface ELSE o_in.camera_frame[i]

\* on the white background a pixel of luminance 250 shown as the stroke
\* beside a pixel of luminance 251 shown as live video
C12_Witness ==
    /\ o_out.done
    /\ o_in.background_color = WHITE
    /\ Len(o_in.camera_frame) = 2
    /\ o_in.canvas = <<<<250, 250, 250>>, <<251, 251, 251>>>>
    /\ o_in.camera_frame[2] = <<10, 20, 30>>
    /\ o_out.result = <<<<250, 250, 250>>, <<10, 20, 30>>>>

\* the squared distance of a point from the centre of a wheel
WheelDistance2(point, coords) ==
    (point[1] - coords.center_x) * (point[1] - coords.center_x)
        + (point[2] - coords.center_y) * (point[2] - coords.center_y)

\* C13: check_color_wheel_interaction returns None for the point None and
\* for a point whose distance from the centre is outside
\* [inner_radius, radius], and a colour for every point whose distance is
\* within it, the two radii included; the RGB values of the main loop
\* change only when it returns a colour.
C13_WheelHitIsTheAnnulus ==
    (c_out.done /\ c_in.op = "wheel") =>
        LET within ==
                /\ c_in.point # None
                /\ WheelDistance2(c_in.point, c_in.coords)
                       <= c_in.coords.radius * c_in.coords.radius
                /\ WheelDistance2(c_in.point, c_in.coords)
                       >= c_in.coords.inner_radius * c_in.coords.inner_radius
        IN  /\ ~within => c_out.wheel_color = None
            /\ within => c_out.wheel_color \in (0..255) \X (0..255) \X (0..255)
            /\ c_out.rgb # c_in.rgb => c_out.wheel_color # None
            /\ c_out.wheel_color = None => c_out.rgb = c_in.rgb

\* a point of the main wheel at the distance radius exactly
C13_Witness ==
    /\ c_out.done
    /\ c_in.op = "wheel"
    /\ c_in.coords = MainWheel
    /\ c_in.point = <<MainWheel.center_x + 48, MainWheel.center_y + 64>>
    /\ c_out.wheel_color # None
    /\ c_out.rgb = c_out.wheel_color
    /\ c_out.rgb # c_in.rgb

\* C14: check_color_selection returns the first button, in the iteration
\* order of the dictionary, whose rectangle (bounds included) holds the
\* point, with is_eraser true exactly when that button is the eraser, and
\* (None, False, None) for the point None or a point in no button; where
\* buttons overlap the earliest one is returned.
C14_FirstButtonInOrder ==
    (c_out.done /\ c_in.op = "selection") =>
        LET holds(i) ==
                /\ c_in.point # None
                /\ c_in.dict[i][2][1] <= c_in.point[1] /\ c_in.point[1] <= c_in.dict[i][2][3]
                /\ c_in.dict[i][2][2] <= c_in.point[2] /\ c_in.point[2] <= c_in.dict[i][2][4]
            hits == {i \in 1..Len(c_in.dict) : holds(i)}
        IN  IF hits = {}
            THEN c_out.selection = <<NoName, FALSE, None>>
            ELSE LET first == CHOOSE i \in hits : \A j \in hits : i <= j
                 IN  /\ c_out.selection[1] = c_in.dict[first][1]
                     /\ c_out.selection[2] = (c_in.dict[first][1] = "eraser")
                     /\ c_out.selection[3] = c_in.dict[first][3]

\* a point the three overlapping buttons share, the eraser not the first
C14_Witness ==
    /\ c_out.done
    /\ c_in.op = "selection"
    /\ c_in.dict = <<OverlapB, OverlapA, OverlapEraser>>
    /\ c_in.point = <<2, 2>>
    /\ c_out.selection = <<"b", FALSE, <<3, 3, 3>>>>

\* C15: check_slider_interaction returns the current values when the point
\* is None or outside the slider rectangle, and in every case returns the
\* red, green and blue values it was given.
C15_SliderKeepsWhatItDoesNotSet ==
    (c_out.done /\ c_in.op = "slider") =>
        /\ (c_in.point = None \/ ~InRect(c_in.point, c_in.rect)) => c_out.values = c_in.values
        /\ c_out.values[1] = c_in.values[1]
        /\ c_out.values[2] = c_in.values[2]
        /\ c_out.values[3] = c_in.values[3]

\* a point one column right of the main slider, the thickness 20 kept
C15_Witness ==
    /\ c_out.done
    /\ c_in.op = "slider"
    /\ c_in.rect = MainSlider
    /\ c_in.point = <<MainSlider[3] + 1, MainSlider[2]>>
    /\ c_in.values = <<255, 0, 128, 20>>
    /\ c_out.values = c_in.values

\* C16: for a point inside the thickness slider the fraction
\* f = (x - x1) / (x2 - x1) is in [0, 1] and the thickness returned is
\* int(1 + 19 f), a value in 1..20; a thickness in 1..20 (5 at the start)
\* stays in 1..20 over a slider test.
C16_ThicknessFromTheFraction ==
    (c_out.done /\ c_in.op = "slider") =>
        /\ (c_in.point # None /\ InRect(c_in.point, c_in.rect)) =>
             LET num == c_in.point[1] - c_in.rect[1]
                 den == c_in.rect[3] - c_in.rect[1]
             IN  /\ 0 <= num /\ num <= den /\ den > 0
                 /\ c_out.values[4] = (den + 19 * num) \div den
                 /\ den * c_out.values[4] <= den + 19 * num
                 /\ den + 19 * num < den * (c_out.values[4] + 1)
        /\ c_in.values[4] \in 1..20 => c_out.values[4] \in 1..20
        /\ initial_line_thickness \in 1..20

\* the right edge of the main slider: f = 1 and the thickness 20
C16_Witness ==
    /\ c_out.done
    /\ c_in.op = "slider"
    /\ c_in.rect = MainSlider
    /\ c_in.point = <<MainSlider[3], MainSlider[4]>>
    /\ c_in.values[4] = initial_line_thickness
    /\ c_out.values[4] = 20

\* pixels of the surface on the stroke of a call (its ends and its middle),
\* at its rim and beside it (above, below, left and right of the middle, at
\* half the thickness and one pixel further)
StrokeSamples(canvas, call) ==
    LET mid == <<(call.start[1] + call.end[1]) \div 2, (call.start[2] + call.end[2]) \div 2>>
        h == call.thickness \div 2
    IN  {p \in {call.start, call.end, mid}
                \cup {<<mid[1] + d, mid[2]>> : d \in {-h - 1, -h, h, h + 1}}
                \cup {<<mid[1], mid[2] + d>> : d \in {-h - 1, -h, h, h + 1}} :
            InCanvas(canvas, p)}

\* a step of the loop that processes a frame
FrameStep == pc = "frame" /\ pc' = "waitkey"

\* C17: the compositor and the rendering of the left panel only read the
\* drawing canvas: over the processing of a frame the canvas changes by the
\* draw_line calls of the draw step and by nothing else, and a frame that
\* draws nothing leaves every pixel as it was: a pixel no call reaches keeps
\* its value, a pixel the last call to reach it covers whole has the colour
\* of that call, a pixel on the rim of that call has its colour blended in.
\* The processing of a frame is the iteration up to waitKey; what the keys
\* do is the matter of C18.
C17_FrameChangesCanvasByDrawingOnly ==
    [][FrameStep =>
         /\ drawing_canvas' = apply_calls(drawing_canvas, obs'.calls)
         /\ obs'.calls = <<>> => drawing_canvas' = drawing_canvas
         /\ \A p \in UNION {StrokeSamples(drawing_canvas, obs'.calls[i]) :
                                 i \in 1..Len(obs'.calls)} :
              LET hits == {i \in 1..Len(obs'.calls) :
                              line_covers(obs'.calls[i].start, obs'.calls[i].end,
                                          obs'.calls[i].thickness, p)}
                  after == PixelAt(drawing_canvas', p)
              IN  IF hits = {}
                  THEN after = PixelAt(drawing_canvas, p)
                  ELSE LET call == obs'.calls[CHOOSE i \in hits : \A j \in hits : j <= i]
                       IN  IF line_coverage(call.start, call.end, call.thickness, p) = "full"
                           THEN after = Solid(call.color)
                           ELSE \/ after = Solid(call.color) /\ after = PixelAt(drawing_canvas, p)
                                \/ /\ after.layers # <<>>
                                   /\ after.layers[Len(after.layers)].shape.color = call.color]_vars

\* a frame that drew a stroke, rendered and composited
C17_Witness ==
    /\ event.kind = "frame"
    /\ obs.calls # <<>>
    /\ HasStrokes(drawing_canvas, canvas_is_white)

\* some pixel has different values in the two surfaces, which have the same
\* shape: a pixel can differ only where the fills differ or a shape of one
\* of the two covers it
PixelsDiffer(canvas1, canvas2) ==
    IF canvas1 = canvas2 THEN FALSE
    ELSE IF canvas1.fill # canvas2.fill
         THEN \E p \in CanvasPixels(canvas1) : PixelAt(canvas1, p) # PixelAt(canvas2, p)
         ELSE \E c \in {canvas1, canvas2} : \E i \in DOMAIN c.paint :
                 \E p \in ShapeBox(c, c.paint[i]) : PixelAt(canvas1, p) # PixelAt(canvas2, p)

\* C18: over every step of the program the pixels of the drawing surface
\* change only by draw_line calls, or because a background toggle has bound
\* drawing_canvas to a new surface.
C18_OnlyDrawLineChangesPixels ==
    [][\/ FrameStep /\ obs'.calls # <<>>
       \/ event'.kind = "toggle" /\ event'.created
       \/ ~PixelsDiffer(drawing_canvas, drawing_canvas')]_vars

\* C19: a frame with no hand is no error. The pinch is false, nothing is
\* drawn, last_drawing_point is None, no button, wheel or slider is hit,
\* the selection, the RGB values and the thickness stay as they were, and
\* the loop goes on to waitKey; the frame after it, with a hand, is mapped
\* and hit-tested as any frame, and starts a stroke if it pinches.
C19_NoHandFrameChangesNothing ==
    /\ (frames >= 1 /\ obs.index = None) =>
         /\ ~obs.is_pinching
         /\ obs.calls = <<>>
         /\ obs.drawing_point = None /\ obs.panel_point = None
         /\ last_drawing_point = None
         /\ obs.hovered = NoName /\ obs.wheel_color = None
         /\ selected_color_name = obs.name_at_draw
         /\ <<red_value, green_value, blue_value>> = obs.rgb_at_draw
         /\ line_thickness = obs.thickness_at_draw
         /\ event.kind = "frame" => pc = "waitkey"
    /\ (frames >= 2 /\ ~prev.hand /\ obs.index # None) =>
         /\ obs.drawing_point =
                inline_drawing_point(obs.index, FrameWidth, FrameHeight,
                    crop_camera_to_portrait(FrameWidth, FrameHeight)[1],
                    crop_camera_to_portrait(FrameWidth, FrameHeight)[2],
                    drawing_area_width, drawing_area_height)
         /\ obs.hovered =
                check_color_selection(obs.panel_point, color_buttons_items(color_buttons))[1]
         /\ (obs.is_pinching /\ obs.drawing_point # None) =>
                /\ obs.calls = <<>>
                /\ obs.since_release = 1
                /\ last_drawing_point = obs.drawing_point

\* a button selected, then a frame with no hand, the selection kept
C19_Witness ==
    /\ frames >= 2
    /\ obs.index = None
    /\ prev.drawing
    /\ selected_color_name = "red"
    /\ current_drawing_color = <<0, 0, 255>>
    /\ last_drawing_point = None
    /\ pc = "waitkey"

\* what the loop and the gestures have built up
SessionState ==
    <<drawing_canvas, canvas_is_white, last_drawing_point, is_erasing,
      current_drawing_color, selected_color_name, red_value, green_value, blue_value,
      line_thickness, color_buttons, frames, obs, prev>>

\* C20: a capture failure is fatal and is not retried. When the camera
\* cannot be opened or a frame cannot be read the error ends the program:
\* the step of the failure changes neither the drawing surface nor the
\* gesture state, and no step follows it, so no frame is processed after.
C20_CaptureFailureIsFatal ==
    [][/\ pc # "crashed"
       /\ event'.kind = "capture_error" =>
            /\ pc' = "crashed"
            /\ SessionState' = SessionState]_vars

\* a read that fails in the loop, after a stroke was drawn
C20_Witness ==
    /\ pc = "crashed"
    /\ event.kind = "capture_error"
    /\ frames >= 2
    /\ HasStrokes(drawing_canvas, canvas_is_white)

-----------------------------------------------------------------------------
\* C21: a frame whose fingertip has no panel point (no hand, or a fingertip
\* outside the portrait window) selects no button, takes no colour from the
\* wheel, leaves the RGB values, the thickness and the remembered selection as
\* they were, and draws nothing.
C21_NonePointDropsTheFrame ==
    (frames >= 1 /\ obs.panel_point = None) =>
        /\ obs.drawing_point = None
        /\ obs.hovered = NoName
        /\ obs.wheel_color = None
        /\ <<red_value, green_value, blue_value>> = obs.rgb_at_draw
        /\ line_thickness = obs.thickness_at_draw
        /\ selected_color_name = obs.name_at_draw
        /\ obs.calls = <<>>
        /\ last_drawing_point = None

\* a pinching hand that leaves the portrait window in the middle of a stroke
C21_Witness ==
    /\ frames >= 2
    /\ obs.index = LeftOfPortrait
    /\ obs.is_pinching
    /\ obs.last_at_start # None
    /\ obs.panel_point = None
    /\ obs.calls = <<>>

-----------------------------------------------------------------------------
\* the squared distance of the two fingertips of a pinch test
PinchDistance2 ==
    (c_in.index_finger_point[1] - c_in.thumb_point[1])
        * (c_in.index_finger_point[1] - c_in.thumb_point[1])
    + (c_in.index_finger_point[2] - c_in.thumb_point[2])
        * (c_in.index_finger_point[2] - c_in.thumb_point[2])

\* C22: is_pinch is true exactly when both points are present and their
\* distance divided by the frame width is strictly below 0.015 (distance^2 *
\* 40000 < 9 * width^2); it is false when a point is None, gives the same
\* answer with its two points exchanged, and the main loop's is_pinching is
\* true only when both points were detected and is_pinch is true.
C22_PinchIsStrictlyBelowThreshold ==
    (c_in.op = "pinch" /\ c_out.done) =>
        LET both == c_in.index_finger_point # None /\ c_in.thumb_point # None
        IN  /\ c_out.is_pinch =
                    (both /\ 40000 * PinchDistance2 < 9 * c_in.frame_width * c_in.frame_width)
            /\ (~both => ~c_out.is_pinch)
            /\ c_out.swapped = c_out.is_pinch
            /\ c_out.is_pinching = (both /\ c_out.is_pinch)

\* two fingertips at exactly 0.015 of the frame width: not a pinch
C22_Witness ==
    /\ c_in.op = "pinch"
    /\ c_out.done
    /\ c_in.index_finger_point # None
    /\ c_in.thumb_point # None
    /\ c_in.frame_width = 200
    /\ PinchDistance2 = 9
    /\ ~c_out.is_pinch

-----------------------------------------------------------------------------
\* C23: when the key read at the end of an iteration is ESC the loop is left:
\* the step writes nothing to the drawing surface and processes no frame,
\* and no step follows it; the keys 'c' and 't' and no key (255) go on to the
\* next iteration.
C23_EscExitsAtOnce ==
    [][/\ pc # "exited"
       /\ event'.key = 27 =>
            /\ pc' = "exited"
            /\ drawing_canvas' = drawing_canvas
            /\ frames' = frames
            /\ SessionState' = SessionState
       /\ event'.key \in {99, 116, NoKey} => pc' = "frame"]_vars

\* ESC read after frames that drew a stroke
C23_Witness ==
    /\ pc = "exited"
    /\ event.key = 27
    /\ frames >= 2
    /\ HasStrokes(drawing_canvas, canvas_is_white)

-----------------------------------------------------------------------------
\* tan((2j + 1) degrees) * 10^6 for j = 0..44, rounded
TanOddTable == <<17455, 52408, 87489, 122785, 158384, 194380, 230868, 267949, 305731,
                 344328, 383864, 424475, 466308, 509525, 554309, 600861, 649408,
                 700208, 753554, 809784, 869287, 932515, 1000000, 1072369, 1150368,
                 1234897, 1327045, 1428148, 1539865, 1664279, 1804048, 1962611,
                 2144507, 2355852, 2605089, 2904211, 3270853, 3732051, 4331476,
                 5144554, 6313752, 8144346, 11430052, 19081137, 57289962>>

\* the direction (a, b) with a > 0, b >= 0 is at most (2j + 1) degrees from
\* the first axis: not a * T < b * 10^6
AngleAtMostOdd(j, a, b) ==
    \/ b = 0
    \/ ~(a <= (b * TanScale - 1) \div TanOddTable[j + 1])

\* the quadrant of the direction (dx, dy), 0..3 counted from the x axis
\* towards the y axis, and the direction turned back into the first quadrant
QuadrantOf(dx, dy) ==
    CASE dx > 0 /\ dy >= 0 -> <<0, dx, dy>>
      [] dx <= 0 /\ dy > 0 -> <<1, dy, -dx>>
      [] dx < 0 /\ dy <= 0 -> <<2, -dx, -dy>>
      [] dx >= 0 /\ dy < 0 -> <<3, -dy, dx>>
      [] OTHER -> <<0, 1, 0>>

\* the offsets of the point of a wheel test from the centre
WheelDx == c_in.point[1] - c_in.coords.center_x
WheelDy == c_in.point[2] - c_in.coords.center_y

\* a wheel test that hit, away from the centre
WheelHit ==
    /\ c_in.op = "wheel"
    /\ c_out.done
    /\ c_out.hsv_color # None
    /\ <<WheelDx, WheelDy>> # <<0, 0>>

\* C24 as stated: the hue of the colour, 2 * hue degrees, is within 1 degree
\* of the atan2 angle of the point (the hue never exceeds the angle, so the
\* angle is at most 2 * hue + 1).
C24_HueWithinOneDegree ==
    WheelHit =>
        LET q == QuadrantOf(WheelDx, WheelDy)
            j == c_out.hsv_color[1] - 45 * q[1]
        IN  /\ j \in 0..44
            /\ TanAtMost(j, q[2], q[3])
            /\ AngleAtMostOdd(j, q[2], q[3])

\* C24: for a point of the annulus the hue that is converted, 2 * hue degrees
\* with hue the angle / 2 cut to a uint8, is at most the atan2 angle of the
\* point and less than 2 degrees below it, and the colour returned has its
\* largest and smallest channels in the 60-degree sector of that hue.
C24_HueWithinTwoDegrees ==
    WheelHit =>
        LET q == QuadrantOf(WheelDx, WheelDy)
            hue == c_out.hsv_color[1]
            j == hue - 45 * q[1]
            rgb == c_out.wheel_color
            sector == hue \div 30
            hi == CASE sector \in {0, 5} -> 1 [] sector \in {1, 2} -> 2 [] OTHER -> 3
            lo == CASE sector \in {0, 1} -> 3 [] sector \in {2, 3} -> 1 [] OTHER -> 2
        IN  /\ hue \in 0..179
            /\ j \in 0..44
            /\ TanAtMost(j, q[2], q[3])
            /\ j < 44 => ~TanAtMost(j + 1, q[2], q[3])
            /\ rgb # None
            /\ \A i \in 1..3 : rgb[lo] <= rgb[i] /\ rgb[i] <= rgb[hi]
            /\ rgb[hi] = 255

\* a hit whose hue is more than 1 degree below the angle of the point
C24_Witness ==
    /\ WheelHit
    /\ LET q == QuadrantOf(WheelDx, WheelDy)
       IN  ~AngleAtMostOdd(c_out.hsv_color[1] - 45 * q[1], q[2], q[3])

-----------------------------------------------------------------------------
\* C25: for a point of the annulus at distance d the 8-bit saturation of the
\* hit test is int(clamp((d - inner) / (radius - inner), 0.1, 1.0) * 255), a
\* value of 25..255 that is 25 at d = inner_radius and 255 at d = radius,
\* whereas the wheel image, where it has a pixel for the point (offsets
\* -radius .. radius - 1 from the centre), has
\* int(clamp(d / radius, 0.1, 1.0) * 255), which is never less.
C25_SaturationOverTheAnnulus ==
    (c_in.op = "wheel" /\ c_out.done /\ c_out.hsv_color # None) =>
        LET radius == c_in.coords.radius
            inner == c_in.coords.inner_radius
            n == radius - inner
            d2 == WheelDistance2(c_in.point, c_in.coords)
            sat == c_out.hsv_color[2]
            image == c_out.generated_hsv
            gen == image[2]
        IN  /\ sat \in 25..255
            /\ sat > 25 => (sat * n + 255 * inner) * (sat * n + 255 * inner) <= 255 * 255 * d2
            /\ sat < 255 =>
                 ((sat + 1) * n + 255 * inner) * ((sat + 1) * n + 255 * inner) > 255 * 255 * d2
            /\ d2 = inner * inner => sat = 25
            /\ d2 = radius * radius => sat = 255
            /\ (image # None) = (/\ WheelDx \in (-radius)..(radius - 1)
                                  /\ WheelDy \in (-radius)..(radius - 1))
            /\ image # None =>
                 /\ gen \in 25..255
                 /\ gen > 25 => (gen * radius) * (gen * radius) <= 255 * 255 * d2
                 /\ gen < 255 => ((gen + 1) * radius) * ((gen + 1) * radius) > 255 * 255 * d2
                 /\ sat <= gen

\* a point on the inner circle of the main loop's wheel: the least
\* saturation in the hit test, a larger one in the image
C25_Witness ==
    /\ c_in.op = "wheel"
    /\ c_out.done
    /\ c_out.hsv_color # None
    /\ c_in.coords = MainWheel
    /\ WheelDistance2(c_in.point, c_in.coords) = MainWheel.inner_radius * MainWheel.inner_radius
    /\ c_out.hsv_color[2] = 25
    /\ c_out.generated_hsv # None
    /\ c_out.generated_hsv[2] > 25

-----------------------------------------------------------------------------
\* C26: at the draw step of every frame is_erasing is true exactly when the
\* remembered selection is the eraser.
C26_ErasingIffEraserSelected ==
    frames >= 1 => (obs.erasing_at_draw <=> obs.name_at_draw = "eraser")

-----------------------------------------------------------------------------
\* C27: the hit tests of a frame are applied before the draw of that frame:
\* a segment drawn in a frame that hovers a colour button has the colour of
\* that button, a segment drawn in a frame whose finger is on the slider has
\* the thickness the slider gives in that frame, and the surface the
\* compositor reads in the frame holds the segment.
C27_HitAppliesToTheSameFrame ==
    event.kind = "frame" =>
        \A i \in 1..Len(obs.calls) :
            /\ obs.hovered \in {"red", "green", "blue", "yellow"} =>
                    obs.calls[i].color = initial_color_buttons[obs.hovered]
            /\ obs.calls[i].thickness = line_thickness
            /\ InCanvas(drawing_canvas, obs.calls[i].end) =>
                    PixelAt(drawing_canvas, obs.calls[i].end) = Solid(obs.calls[i].color)

-----------------------------------------------------------------------------
\* C28: while the remembered selection is "custom" the drawing colour at the
\* end of every frame is (blue_value, green_value, red_value); while it is
\* one of the colour buttons the drawing colour is that button's colour, and
\* a wheel hit changes the RGB values and not the drawing colour.
C28_CustomFollowsTheRgbValues ==
    frames >= 1 =>
        /\ selected_color_name = "custom" =>
                current_drawing_color = <<blue_value, green_value, red_value>>
        /\ selected_color_name \in {"red", "green", "blue", "yellow"} =>
                current_drawing_color = initial_color_buttons[selected_color_name]
        /\ obs.wheel_color # None =>
                <<red_value, green_value, blue_value>> = obs.wheel_color

\* the custom button selected in a frame and the wheel hit in a later one
C28_Witness ==
    /\ frames >= 2
    /\ obs.name_at_draw = "custom"
    /\ selected_color_name = "custom"
    /\ obs.wheel_color # None
    /\ obs.wheel_color # obs.rgb_at_draw
    /\ current_drawing_color = <<obs.wheel_color[3], obs.wheel_color[2], obs.wheel_color[1]>>
    /\ current_drawing_color # obs.color_at_draw

-----------------------------------------------------------------------------
\* C29: whenever the mapping of a fingertip pixel of the frame (0 <= x <=
\* frame width, 0 <= y <= frame height) returns a point, the point lies
\* inside the destination panel: 0 <= x < panel_width, 0 <= y < panel_height.
C29_MappedPointInsideThePanel ==
    (/\ m_out.done
     /\ 0 <= m_in.pt[1] /\ m_in.pt[1] <= m_in.fw
     /\ 0 <= m_in.pt[2] /\ m_in.pt[2] <= m_in.fh) =>
        \A p \in {m_out.panel, m_out.drawing_point} \ {None} :
            /\ 0 <= p[1] /\ p[1] < m_in.pw
            /\ 0 <= p[2] /\ p[2] < m_in.ph

-----------------------------------------------------------------------------
\* the gesture state a key or a click has no part in
GestureState ==
    <<last_drawing_point, selected_color_name, is_erasing, red_value, green_value,
      blue_value, line_thickness>>

\* C30: a step taken while the loop waits for a key (a key or a mouse click)
\* leaves last_drawing_point, selected_color_name, is_erasing, the RGB values
\* and line_thickness unchanged; a toggle flips canvas_is_white and leaves a
\* blank surface of the new background, key 'c' keeps canvas_is_white and
\* sets every pixel to the current background, any other step leaves both;
\* and a click acts only inside the rectangle [10,130] x [10,50].
C30_ToggleAndClearTouchOnlyTheSurface ==
    [][pc = "waitkey" =>
        /\ GestureState' = GestureState
        /\ event'.kind = "toggle" =>
              /\ canvas_is_white' = ~canvas_is_white
              /\ AllPixels(drawing_canvas', background_color_of(canvas_is_white'))
        /\ event'.key = 99 =>
              /\ canvas_is_white' = canvas_is_white
              /\ AllPixels(drawing_canvas', background_color_of(canvas_is_white))
        /\ (event'.kind # "toggle" /\ event'.key # 99) =>
              /\ canvas_is_white' = canvas_is_white
              /\ drawing_canvas' = drawing_canvas
        /\ event'.click # None =>
              /\ 10 <= event'.click[1] /\ event'.click[1] <= 130
              /\ 10 <= event'.click[2] /\ event'.click[2] <= 50]_vars

\* a click on the toggle button in the middle of a stroke, with a colour
\* selected
C30_Witness ==
    /\ event.kind = "toggle"
    /\ event.click # None
    /\ event.strokes_before
    /\ last_drawing_point # None
    /\ selected_color_name # NoName
    /\ ~HasStrokes(drawing_canvas, canvas_is_white)

=============================================================================
